---- MODULE Spec2Model ----
(***************************************************************************)
(* atomix.h: a wait-free sound mixer.  One control thread calls the play / *)
(* set / stop functions, one mix thread calls atomixMixerMix.  The model   *)
(* follows both threads through every access of a layer's atomic fields.   *)
(***************************************************************************)
EXTENDS Integers, Sequences, FiniteSets, TLC

VARIABLES
    sse,      \* build variant: TRUE unless ATOMIX_NO_SSE is defined
    nid,      \* mix->nid, next id
    lays,     \* mix->lays, the layers
    mixfade,  \* mix->fade, global default fade value
    rem,      \* mix->rem, remaining frames (SSE only)
    volume,   \* mix->volume, global volume, in units of one half
    data,     \* mix->data, old frames (SSE only): 6 floats
    cpc,      \* control thread: position
    cargs,    \* control thread: the running call and its arguments
    ci,       \* control thread: loop counter i
    cid,      \* control thread: local id of atomixMixerPlayAdv
    cprev,    \* control thread: local prev of atomixMixerSetState, flag of HaltAll
    cret,     \* control thread: value returned by the last finished call
    mpc,      \* mix thread: position
    mfnum,    \* mix thread: fnum of the running atomixMixerMix
    mrnum,    \* mix thread: rnum, frames still to be produced
    mi,       \* mix thread: layer index i
    mflag,    \* mix thread: local flag of atmxMixLayer
    mcur,     \* mix thread: local cur
    mold,     \* mix thread: local old of the kernel
    mret,     \* mix thread: value returned by the last atomixMixerMix
    mout,     \* mix thread: floats written to buff by the running call
    mbuff,    \* mix thread: with SSE those floats, old frames or new
    mreads    \* mix thread: what the kernel of this layer read, round by round

mixerVars == <<sse, nid, lays, mixfade, rem, volume, data>>
ctlVars == <<cpc, cargs, ci, cid, cprev, cret>>
mixVars ==
    <<mpc, mfnum, mrnum, mi, mflag, mcur, mold, mret, mout, mbuff, mreads>>
vars == <<sse, nid, lays, mixfade, rem, volume, data,
          cpc, cargs, ci, cid, cprev, cret,
          mpc, mfnum, mrnum, mi, mflag, mcur, mold, mret, mout, mbuff, mreads>>

---------------------------------------------------------------------------
(* Constants of the program *)

FREE == 0
ATOMIX_STOP == 1
ATOMIX_HALT == 2
ATOMIX_PLAY == 3
ATOMIX_LOOP == 4

\* the build option ATOMIX_LBITS (8 unless defined otherwise): the model is
\* the build with ATOMIX_LBITS 1, which has two layers
ATOMIX_LBITS == 1
ATMX_LAYERS == 2 ^ ATOMIX_LBITS
ATMX_LMASK == ATMX_LAYERS - 1

Slots == 0 .. ATMX_LMASK

(* Bounds of the model *)
MaxNid == 3     \* a play call starts only while nid + ATMX_LAYERS <= MaxNid
MaxBlocks == 1  \* atomixMixerMix is called with 4 * (1 .. MaxBlocks) frames
MaxNidSeq == 4  \* the same limit on nid when the threads take turns
MaxNidFade == 3 \* the same limit on nid where fades are played
MaxNidStop == 3 \* the same limit on nid where several playbacks are stopped
MaxNidWait == 3 \* the same limit on nid where every operation is called
MaxNidReuse == 5 \* the same limit on nid where layers are used again
MaxFrames == 8  \* atomixMixerMix is called with 1 .. MaxFrames frames there
MaxNidCursor == 3 \* the same limit on nid where cursors are moved
MaxNidRelease == 2 \* the same limit on nid where layers are waited for
MaxNidRound == 3 \* the same limit on nid where all layers are halted and resumed

---------------------------------------------------------------------------
(* Pure helpers *)

\* x & ~3 on a two's complement int32_t
Trunc4(x) == x - (x % 4)

\* id & ATMX_LMASK
LayerOf(id) == id % ATMX_LAYERS

\* atomixSoundNew: channels and the length rounded up to a multiple of 4
atomixSoundNew(cha, len) == [cha |-> cha, len |-> Trunc4(len + 3)]

\* the sounds the callers own; a sound is referred to by its index, 0 is NULL
Sounds == <<atomixSoundNew(1, 3), atomixSoundNew(2, 8)>>

\* atmxGainf2, in units of one half so that the values stay integers:
\* <<l, r>> stands for (l/2, r/2)
atmxGainf2(gain, pan) ==
    LET p == IF pan < -1 THEN -1 ELSE IF pan > 1 THEN 1 ELSE pan
    IN  <<gain * (1 - p), gain * (1 + p)>>

\* a layer of the zero-filled mixer
ZeroLayer ==
    [id |-> 0, flag |-> FREE, cursor |-> 0, gain |-> <<0, 0>>, snd |-> 0,
     start |-> 0, end |-> 0, fade |-> 0, fmax |-> 0]

\* mix->fade = (fade < 0) ? 0 : fade & ~3
ClampFade(fade) == IF fade < 0 THEN 0 ELSE Trunc4(fade)

\* the volume the mixer is made with: atomixMixerNew(0.5f, 0)
InitialVolume == 1

NoArgs == [op |-> "none"]
NoRet == -1

---------------------------------------------------------------------------
(* Floats in memory.  A float is known by its place in the aligned buffer *)
(* mixed last, counted back from the end of that buffer; a float that is   *)
(* not one of that buffer, or only in some of its bytes, is Stale.         *)

\* float data[6]
DataFloats == 6

\* sizeof(float)
FloatBytes == 4

\* a float that is not of the aligned buffer mixed last: the zeroes of
\* ATOMIX_ZALLOC, what is left of an earlier buffer, or bytes of both
Stale == 0

\* __m128 align[asize], after the layers are mixed: 4 floats per __m128
Align(asize) == [p \in 1 .. asize * 4 |-> asize * 4 - p + 1]

\* src + k for a pointer to float
Offset(src, k) == SubSeq(src, k + 1, Len(src))

\* memcpy(dst, src, n), memmove(dst, src, n): the first n bytes of dst are
\* those of src, so a float of dst that n ends in the middle of is no
\* float of src any more, nor the one it was
Memcpy(dst, src, n) ==
    [j \in 1 .. Len(dst) |->
        IF j * FloatBytes <= n THEN src[j]
        ELSE IF (j - 1) * FloatBytes < n /\ src[j] # dst[j] THEN Stale
        ELSE dst[j]]

\* the floats of src that a memcpy(buff, src, k*sizeof(float)) writes to
\* buff; old tells the frames kept in mix->data from those mixed in this call
Written(src, k, old) ==
    [j \in 1 .. k |-> [old |-> old, float |-> src[j]]]

\* a new aligned buffer is mixed: what mix->data holds is of an earlier one
Outdated(dat) == [j \in 1 .. Len(dat) |-> Stale]

---------------------------------------------------------------------------
(* atomixMixerNew *)

\* the mixer after atomixMixerNew(vol, fade), in the builds of variants and
\* for the fade arguments of fades
InitMixer(variants, fades) ==
    /\ sse \in variants
    /\ nid = 0
    /\ lays = [i \in Slots |-> ZeroLayer]
    /\ mixfade \in {ClampFade(f) : f \in fades}
    /\ rem = 0
    /\ data = [j \in 1 .. DataFloats |-> Stale]
    /\ volume = InitialVolume
    /\ cpc = "idle" /\ cargs = NoArgs /\ ci = 0 /\ cid = 0 /\ cprev = 0
    /\ cret = NoRet
    /\ mpc = "idle" /\ mfnum = 0 /\ mrnum = 0 /\ mi = 0 /\ mflag = 0
    /\ mcur = 0 /\ mold = 0 /\ mret = NoRet
    /\ mout = 0 /\ mbuff = <<>> /\ mreads = <<>>

---------------------------------------------------------------------------
(* Control thread: calls and returns.  A call is made from "idle"; its     *)
(* first step runs the function up to and including its first access of   *)
(* the mixer.  At "ret" the function has returned cret to its caller.      *)

\* the call returns val to its caller
Return(val) ==
    /\ cpc' = "ret"
    /\ cret' = val
    /\ ci' = 0 /\ cid' = 0 /\ cprev' = 0

\* the function goes on at pc
Goto(pc) ==
    /\ cpc' = pc
    /\ UNCHANGED <<ci, cid, cprev, cret>>

\* the caller takes the returned value and goes on
ControlResume ==
    /\ cpc = "ret"
    /\ cpc' = "idle"
    /\ cargs' = NoArgs
    /\ cret' = NoRet
    /\ UNCHANGED <<ci, cid, cprev>>
    /\ UNCHANGED mixerVars
    /\ UNCHANGED mixVars

---------------------------------------------------------------------------
(* atomixMixerPlay, atomixMixerPlayAdv *)

\* a validation that would not look at end alone
PlayArgsInvalid_NoEnd(flag, start, end) ==
    \/ flag < 1 \/ flag > 4
    \/ end - start < 4

\* (flag < 1)||(flag > 4), then (end - start < 4)||(end < 4)
PlayArgsInvalid(flag, start, end) ==
    \/ flag < 1 \/ flag > 4
    \/ end - start < 4 \/ end < 4

\* an allocation that would use the counter value as it is
SkipZero_Keep(id) == id

\* if (!id) id = ATMX_LAYERS
SkipZero(id) == IF id = 0 THEN ATMX_LAYERS ELSE id

\* a variant that starts a playing layer faded out and a stopped one faded in
InitialFade_FadeIn(flag, fmax) == IF flag < 3 THEN fmax ELSE 0

\* lay->fade = (flag < 3) ? 0 : lay->fmax
InitialFade(flag, fmax) == IF flag < 3 THEN 0 ELSE fmax

\* the layer as the allocation fills it in, flag still 0
\* a variant that stores start and end as they are given
FilledLayer_RawWindow(lay, id, a) ==
    [lay EXCEPT
        !.id = id,
        !.snd = a.snd,
        !.start = a.start,
        !.end = a.end,
        !.fmax = ClampFade(a.fade),
        !.fade = InitialFade(a.flag, ClampFade(a.fade)),
        !.gain = atmxGainf2(a.gain, a.pan),
        !.cursor = a.start]

FilledLayer(lay, id, a) ==
    [lay EXCEPT
        !.id = id,
        !.snd = a.snd,
        !.start = Trunc4(a.start),
        !.end = Trunc4(a.end),
        !.fmax = ClampFade(a.fade),
        !.fade = InitialFade(a.flag, ClampFade(a.fade)),
        !.gain = atmxGainf2(a.gain, a.pan),
        !.cursor = Trunc4(a.start)]

\* the call and the validation of its arguments
atomixMixerPlayAdv(snd, flag, gain, pan, start, end, fade) ==
    /\ cpc = "idle"
    /\ cargs' = [op |-> "PlayAdv", snd |-> snd, flag |-> flag, gain |-> gain,
                 pan |-> pan, start |-> start, end |-> end, fade |-> fade]
    /\ IF PlayArgsInvalid(flag, start, end)
       THEN Return(0)
       ELSE Goto("probe")
    /\ UNCHANGED mixerVars
    /\ UNCHANGED mixVars

\* play with start and end equal to start and end of the sound itself
atomixMixerPlay(snd, flag, gain, pan) ==
    atomixMixerPlayAdv(snd, flag, gain, pan, 0, Sounds[snd].len, mixfade)

\* a loop that would make one attempt fewer
MoreAttempts_OneLess(i) == i < ATMX_LAYERS - 1

\* make ATMX_LAYERS attempts to find layer: i < ATMX_LAYERS
MoreAttempts(i) == i < ATMX_LAYERS

\* a variant that also takes a layer whose flag is ATOMIX_STOP
PlayAdvProbe_TakesStopped ==
    /\ cpc = "probe"
    /\ nid' = nid + 1
    /\ IF lays[LayerOf(nid)].flag \in {FREE, ATOMIX_STOP}
       THEN /\ cpc' = "fill"
            /\ cid' = nid
            /\ UNCHANGED <<ci, cprev, cret>>
       ELSE IF MoreAttempts(ci + 1)
       THEN /\ ci' = ci + 1
            /\ UNCHANGED <<cpc, cid, cprev, cret>>
       ELSE Return(0)
    /\ UNCHANGED cargs
    /\ UNCHANGED <<sse, lays, mixfade, rem, volume, data>>
    /\ UNCHANGED mixVars

\* one round of the for loop: id = mix->nid++, load the flag of its layer
\* (nid is a uint32_t; the model keeps it far below the wrap at 2^32)
PlayAdvProbe ==
    /\ cpc = "probe"
    /\ nid' = nid + 1
    /\ IF lays[LayerOf(nid)].flag = FREE
       THEN /\ cpc' = "fill"
            /\ cid' = nid
            /\ UNCHANGED <<ci, cprev, cret>>
       ELSE IF MoreAttempts(ci + 1)
       THEN /\ ci' = ci + 1
            /\ UNCHANGED <<cpc, cid, cprev, cret>>
       ELSE Return(0)
    /\ UNCHANGED cargs
    /\ UNCHANGED <<sse, lays, mixfade, rem, volume, data>>
    /\ UNCHANGED mixVars

\* the plain writes and the stores of gain and cursor, all to a layer
\* whose flag the loop has just read as 0
PlayAdvFill ==
    /\ cpc = "fill"
    /\ cid' = SkipZero(cid)
    /\ lays' = [lays EXCEPT ![LayerOf(cid)] = FilledLayer(@, SkipZero(cid), cargs)]
    /\ cpc' = "publish"
    /\ UNCHANGED <<cargs, ci, cprev, cret>>
    /\ UNCHANGED <<sse, nid, mixfade, rem, volume, data>>
    /\ UNCHANGED mixVars

\* store flag last, releasing the layer to the mixer thread
PlayAdvPublish ==
    /\ cpc = "publish"
    /\ lays' = [lays EXCEPT ![LayerOf(cid)].flag = cargs.flag]
    /\ Return(cid)
    /\ UNCHANGED cargs
    /\ UNCHANGED <<sse, nid, mixfade, rem, volume, data>>
    /\ UNCHANGED mixVars

---------------------------------------------------------------------------
(* atomixMixerSetGainPan, atomixMixerSetCursor, atomixMixerSetState *)

\* a check that would not compare the id
HandleValid_AnyId(id) == lays[LayerOf(id)].flag > 1

\* a check that would take a stopped layer as well
HandleValid_AnyFlag(id) ==
    /\ id = lays[LayerOf(id)].id
    /\ lays[LayerOf(id)].flag > 0

\* (id == lay->id)&&(ATMX_LOAD(&lay->flag) > 1)
HandleValid(id) ==
    /\ id = lays[LayerOf(id)].id
    /\ lays[LayerOf(id)].flag > 1

\* a variant that leaves out the & ~3
ClampCursor_NoMask(lay, cursor) ==
    IF cursor < lay.start THEN lay.start
    ELSE IF cursor > lay.end THEN lay.end
    ELSE cursor

\* (cursor < lay->start) ? lay->start : (cursor > lay->end) ? lay->end : cursor & ~3
ClampCursor(lay, cursor) ==
    IF cursor < lay.start THEN lay.start
    ELSE IF cursor > lay.end THEN lay.end
    ELSE Trunc4(cursor)

\* (flag < 1)||(flag > 4)
StateInvalid(flag) == flag < 1 \/ flag > 4

\* what the functions return: 1 after the update, 0 at "return failure"
RetSuccess == 1
RetFailure == 0

\* the call and the check of the handle
atomixMixerSetGainPan(id, gain, pan) ==
    /\ cpc = "idle"
    /\ cargs' = [op |-> "SetGainPan", id |-> id, gain |-> gain, pan |-> pan]
    /\ IF HandleValid(id)
       THEN Goto("SetGainPan_store")
       ELSE Return(RetFailure)
    /\ UNCHANGED mixerVars
    /\ UNCHANGED mixVars

\* ATMX_STORE(&lay->gain, atmxGainf2(gain, pan))
SetGainPanStore ==
    /\ cpc = "SetGainPan_store"
    /\ lays' = [lays EXCEPT ![LayerOf(cargs.id)].gain =
                    atmxGainf2(cargs.gain, cargs.pan)]
    /\ Return(RetSuccess)
    /\ UNCHANGED cargs
    /\ UNCHANGED <<sse, nid, mixfade, rem, volume, data>>
    /\ UNCHANGED mixVars

\* the call and the check of the handle
atomixMixerSetCursor(id, cursor) ==
    /\ cpc = "idle"
    /\ cargs' = [op |-> "SetCursor", id |-> id, cursor |-> cursor]
    /\ IF HandleValid(id)
       THEN Goto("SetCursor_store")
       ELSE Return(RetFailure)
    /\ UNCHANGED mixerVars
    /\ UNCHANGED mixVars

\* ATMX_STORE(&lay->cursor, ...)
SetCursorStore ==
    /\ cpc = "SetCursor_store"
    /\ lays' = [lays EXCEPT ![LayerOf(cargs.id)].cursor =
                    ClampCursor(lays[LayerOf(cargs.id)], cargs.cursor)]
    /\ Return(RetSuccess)
    /\ UNCHANGED cargs
    /\ UNCHANGED <<sse, nid, mixfade, rem, volume, data>>
    /\ UNCHANGED mixVars

\* the call, the validation of flag, the check of the handle
atomixMixerSetState(id, flag) ==
    /\ cpc = "idle"
    /\ cargs' = [op |-> "SetState", id |-> id, flag |-> flag]
    /\ IF StateInvalid(flag) THEN Return(RetFailure)
       ELSE IF HandleValid(id)
       THEN IF lays[LayerOf(id)].flag = flag
            THEN Return(RetSuccess)
            ELSE /\ cpc' = "SetState_cas"
                 /\ cprev' = lays[LayerOf(id)].flag
                 /\ UNCHANGED <<ci, cid, cret>>
       ELSE Return(RetFailure)
    /\ UNCHANGED mixerVars
    /\ UNCHANGED mixVars

\* a plain store in place of the compare-and-swap
CasSwaps_Always(found, prev) == TRUE

\* whether ATMX_CSWAP(&lay->flag, &prev, flag) swaps, given the flag it finds
CasSwaps(found, prev) == found = prev

\* a compare-and-swap in a loop, which would try again with the flag found
SetStateCas_Retry ==
    /\ cpc = "SetState_cas"
    /\ IF CasSwaps(lays[LayerOf(cargs.id)].flag, cprev)
       THEN /\ lays' = [lays EXCEPT ![LayerOf(cargs.id)].flag = cargs.flag]
            /\ Return(RetSuccess)
       ELSE /\ UNCHANGED lays
            /\ cprev' = lays[LayerOf(cargs.id)].flag
            /\ UNCHANGED <<cpc, ci, cid, cret>>
    /\ UNCHANGED cargs
    /\ UNCHANGED <<sse, nid, mixfade, rem, volume, data>>
    /\ UNCHANGED mixVars

\* if (ATMX_CSWAP(&lay->flag, &prev, flag)) return 1; else return failure
SetStateCas ==
    /\ cpc = "SetState_cas"
    /\ IF CasSwaps(lays[LayerOf(cargs.id)].flag, cprev)
       THEN /\ lays' = [lays EXCEPT ![LayerOf(cargs.id)].flag = cargs.flag]
            /\ Return(RetSuccess)
       ELSE /\ UNCHANGED lays
            /\ Return(RetFailure)
    /\ UNCHANGED cargs
    /\ UNCHANGED <<sse, nid, mixfade, rem, volume, data>>
    /\ UNCHANGED mixVars

---------------------------------------------------------------------------
(* atomixMixerVolume, atomixMixerFade, atomixMixerStopAll, atomixMixerHaltAll, *)
(* atomixMixerPlayAll                                                       *)

\* simple atomic store of the volume
atomixMixerVolume(vol) ==
    /\ cpc = "idle"
    /\ cargs' = [op |-> "Volume", vol |-> vol]
    /\ volume' = vol
    /\ Return(NoRet)
    /\ UNCHANGED <<sse, nid, lays, mixfade, rem, data>>
    /\ UNCHANGED mixVars

\* mix->fade = (fade < 0) ? 0 : fade & ~3
atomixMixerFade(fade) ==
    /\ cpc = "idle"
    /\ cargs' = [op |-> "Fade", fade |-> fade]
    /\ mixfade' = ClampFade(fade)
    /\ Return(NoRet)
    /\ UNCHANGED <<sse, nid, lays, rem, volume, data>>
    /\ UNCHANGED mixVars

\* the end of one round of a for loop over the layers, in state pc
NextLayer(pc) ==
    /\ IF ci + 1 < ATMX_LAYERS
       THEN /\ cpc' = pc
            /\ ci' = ci + 1
            /\ cprev' = 0
            /\ UNCHANGED <<cid, cret>>
       ELSE Return(NoRet)
    /\ UNCHANGED cargs

\* the call: on to the loop over the layers
atomixMixerStopAll ==
    /\ cpc = "idle"
    /\ cargs' = [op |-> "StopAll"]
    /\ Goto("StopAll_load")
    /\ UNCHANGED mixerVars
    /\ UNCHANGED mixVars

\* a loop that would pass over the halted layers
StopAllHits_Playing(flag) == flag > 2

\* check if active: ATMX_LOAD(&lay->flag) > 1
StopAllHits(flag) == flag > 1

\* if (ATMX_LOAD(&lay->flag) > 1) ...
StopAllLoad ==
    /\ cpc = "StopAll_load"
    /\ IF StopAllHits(lays[ci].flag)
       THEN Goto("StopAll_store") /\ UNCHANGED cargs
       ELSE NextLayer("StopAll_load")
    /\ UNCHANGED mixerVars
    /\ UNCHANGED mixVars

\* ... ATMX_STORE(&lay->flag, ATOMIX_STOP)
StopAllStore ==
    /\ cpc = "StopAll_store"
    /\ lays' = [lays EXCEPT ![ci].flag = ATOMIX_STOP]
    /\ NextLayer("StopAll_load")
    /\ UNCHANGED <<sse, nid, mixfade, rem, volume, data>>
    /\ UNCHANGED mixVars

\* the call: on to the loop over the layers
atomixMixerHaltAll ==
    /\ cpc = "idle"
    /\ cargs' = [op |-> "HaltAll"]
    /\ Goto("HaltAll_load")
    /\ UNCHANGED mixerVars
    /\ UNCHANGED mixVars

\* if ((flag = ATMX_LOAD(&lay->flag)) > 2) ...
HaltAllLoad ==
    /\ cpc = "HaltAll_load"
    /\ IF lays[ci].flag > 2
       THEN /\ cpc' = "HaltAll_cas"
            /\ cprev' = lays[ci].flag
            /\ UNCHANGED <<cargs, ci, cid, cret>>
       ELSE NextLayer("HaltAll_load")
    /\ UNCHANGED mixerVars
    /\ UNCHANGED mixVars

\* a plain store of ATOMIX_HALT in place of the compare-and-swap
HaltAllCas_Store ==
    /\ cpc = "HaltAll_cas"
    /\ lays' = [lays EXCEPT ![ci].flag = ATOMIX_HALT]
    /\ NextLayer("HaltAll_load")
    /\ UNCHANGED <<sse, nid, mixfade, rem, volume, data>>
    /\ UNCHANGED mixVars

\* a variant that halts the layers that play and skips those that loop
HaltAllCas_PlayingOnly ==
    /\ cpc = "HaltAll_cas"
    /\ lays' = [lays EXCEPT ![ci].flag =
                    IF @ = cprev /\ @ = ATOMIX_PLAY THEN ATOMIX_HALT ELSE @]
    /\ NextLayer("HaltAll_load")
    /\ UNCHANGED <<sse, nid, mixfade, rem, volume, data>>
    /\ UNCHANGED mixVars

\* ... ATMX_CSWAP(&lay->flag, &flag, ATOMIX_HALT)
HaltAllCas ==
    /\ cpc = "HaltAll_cas"
    /\ lays' = [lays EXCEPT ![ci].flag = IF @ = cprev THEN ATOMIX_HALT ELSE @]
    /\ NextLayer("HaltAll_load")
    /\ UNCHANGED <<sse, nid, mixfade, rem, volume, data>>
    /\ UNCHANGED mixVars

\* the call: on to the loop over the layers
atomixMixerPlayAll ==
    /\ cpc = "idle"
    /\ cargs' = [op |-> "PlayAll"]
    /\ Goto("PlayAll_cas")
    /\ UNCHANGED mixerVars
    /\ UNCHANGED mixVars

\* a compare-and-swap that would expect ATOMIX_STOP as well as ATOMIX_HALT
PlayAllCas_FromStop ==
    /\ cpc = "PlayAll_cas"
    /\ lays' = [lays EXCEPT ![ci].flag =
                    IF @ \in {ATOMIX_STOP, ATOMIX_HALT} THEN ATOMIX_PLAY ELSE @]
    /\ NextLayer("PlayAll_cas")
    /\ UNCHANGED <<sse, nid, mixfade, rem, volume, data>>
    /\ UNCHANGED mixVars

\* ATMX_CSWAP(&mix->lays[i].flag, &flag, ATOMIX_PLAY) with flag = ATOMIX_HALT
PlayAllCas ==
    /\ cpc = "PlayAll_cas"
    /\ lays' = [lays EXCEPT ![ci].flag = IF @ = ATOMIX_HALT THEN ATOMIX_PLAY ELSE @]
    /\ NextLayer("PlayAll_cas")
    /\ UNCHANGED <<sse, nid, mixfade, rem, volume, data>>
    /\ UNCHANGED mixVars

---------------------------------------------------------------------------
(* The kernels: atmxMixFadeMono/Stereo and atmxMixPlayMono/Stereo.  Mono   *)
(* and stereo differ only in the samples they read; cursor and fade move   *)
(* alike.  A kernel runs n rounds and moves step frames per round: 4 with  *)
(* SSE, 1 without.                                                         *)

\* frames per round of a kernel loop
Step == IF sse THEN 4 ELSE 1

\* asize = ((rnum + 3) & ~3) >> 1, in __m128 (2 frames each)
Asize(rnum) == Trunc4(rnum + 3) \div 2

\* a variant with SSE that counts a round per __m128, i += 1
Rounds_PerVector(rnum) == IF sse THEN Asize(rnum) ELSE rnum

\* rounds of a kernel loop: i < asize, i += 2 with SSE; i < fnum*2, i += 2 without
Rounds(rnum) == IF sse THEN Asize(rnum) \div 2 ELSE rnum

\* a round that reads no sample: if (cur >= 0) fails
NoSample == -1

\* a variant that reads the sound whatever the cursor
Frame_NoCheck(lay, cur, num, den) ==
    [cur |-> cur, idx |-> cur % Sounds[lay.snd].len, num |-> num, den |-> den]

\* one round of a kernel loop at cursor cur: the frame of the sound it reads,
\* sam = lay->snd->data[cur % lay->snd->len] (with SSE the block of 4 frames
\* that starts there), and the factor num/den it applies on top of the gain
Frame(lay, cur, num, den) ==
    [cur |-> cur,
     idx |-> IF cur >= 0 THEN cur % Sounds[lay.snd].len ELSE NoSample,
     num |-> num, den |-> den]

RECURSIVE FadeOutLoop(_, _, _, _, _, _)
\* perform fade out: quit if fully faded out, else advance cursor and fade
FadeOutLoop(lay, fade, cur, n, step, out) ==
    IF n = 0 \/ fade = 0
    THEN [cur |-> cur, fade |-> fade, reads |-> out]
    ELSE FadeOutLoop(lay, fade - step, cur + step, n - 1, step,
                     Append(out, Frame(lay, cur, fade, lay.fmax)))

RECURSIVE PlayOutLoop(_, _, _, _, _, _)
\* continue playback to end without fade out: quit if cursor at end
PlayOutLoop(lay, fade, cur, n, step, out) ==
    IF n = 0 \/ cur = lay.end
    THEN [cur |-> cur, fade |-> fade, reads |-> out]
    ELSE PlayOutLoop(lay, fade, cur + step, n - 1, step,
                     Append(out, Frame(lay, cur, 1, 1)))

\* a variant that fades out however few frames are left
atmxMixFade_FadesOut(lay, cur, n, step) ==
    FadeOutLoop(lay, lay.fade, cur, n, step, <<>>)

\* a variant that never fades out
atmxMixFade_PlaysOut(lay, cur, n, step) ==
    PlayOutLoop(lay, lay.fade, cur, n, step, <<>>)

\* atmxMixFadeMono, atmxMixFadeStereo: the new cursor and lay->fade, and the
\* rounds that added to the output
atmxMixFade(lay, cur, n, step) ==
    IF lay.fade < lay.end - cur
    THEN FadeOutLoop(lay, lay.fade, cur, n, step, <<>>)
    ELSE PlayOutLoop(lay, lay.fade, cur, n, step, <<>>)

RECURSIVE PlayLoop_FadesOn(_, _, _, _, _, _, _, _)
\* a variant that advances fade in every round of the fade in
PlayLoop_FadesOn(lay, fadein, loop, fade, cur, n, step, out) ==
    IF n = 0 \/ (cur = lay.end /\ ~loop)
    THEN [cur |-> cur, fade |-> fade, reads |-> out]
    ELSE LET c == IF cur = lay.end THEN lay.start ELSE cur
         IN  PlayLoop_FadesOn(lay, fadein, loop,
                      IF fadein THEN fade + step ELSE fade,
                      c + step, n - 1, step,
                      Append(out, IF fadein THEN Frame(lay, c, fade, lay.fmax)
                                            ELSE Frame(lay, c, 1, 1)))

RECURSIVE PlayLoop(_, _, _, _, _, _, _, _)
\* fade in and regular playback: at end quit unless looping, else wrap around;
\* fadein is the branch taken on entry (lay->fade < lay->fmax)
PlayLoop(lay, fadein, loop, fade, cur, n, step, out) ==
    IF n = 0 \/ (cur = lay.end /\ ~loop)
    THEN [cur |-> cur, fade |-> fade, reads |-> out]
    ELSE LET c == IF cur = lay.end THEN lay.start ELSE cur
         IN  PlayLoop(lay, fadein, loop,
                      IF fadein /\ fade < lay.fmax THEN fade + step ELSE fade,
                      c + step, n - 1, step,
                      Append(out, IF fadein THEN Frame(lay, c, fade, lay.fmax)
                                            ELSE Frame(lay, c, 1, 1)))

\* a variant that wraps around at end whether looping or not
atmxMixPlay_Wraps(lay, loop, cur, n, step) ==
    PlayLoop(lay, lay.fade < lay.fmax, TRUE, lay.fade, cur, n, step, <<>>)

\* a variant that always plays at full level
atmxMixPlay_NoFadeIn(lay, loop, cur, n, step) ==
    PlayLoop(lay, FALSE, loop, lay.fade, cur, n, step, <<>>)

\* atmxMixPlayMono, atmxMixPlayStereo: the new cursor and lay->fade, and the
\* rounds that added to the output
atmxMixPlay(lay, loop, cur, n, step) ==
    PlayLoop(lay, lay.fade < lay.fmax, loop, lay.fade, cur, n, step, <<>>)

---------------------------------------------------------------------------
(* Mix thread: atomixMixerMix and atmxMixLayer *)

\* return fnum
MixReturn ==
    /\ mpc' = "ret"
    /\ mret' = mfnum'
    /\ mrnum' = 0 /\ mi' = 0 /\ mflag' = 0 /\ mcur' = 0 /\ mold' = 0
    /\ mreads' = <<>>

\* the caller takes the returned value and goes on
MixResume ==
    /\ mpc = "ret"
    /\ mpc' = "idle"
    /\ mfnum' = 0
    /\ mret' = NoRet
    /\ mout' = 0
    /\ mbuff' = <<>>
    /\ UNCHANGED <<mrnum, mi, mflag, mcur, mold, mreads>>
    /\ UNCHANGED mixerVars
    /\ UNCHANGED ctlVars

MixEnterLayers(rnum) ==
    /\ mpc' = "flag"
    /\ mrnum' = rnum
    /\ UNCHANGED mret
    /\ mi' = 0 /\ mflag' = 0 /\ mcur' = 0 /\ mold' = 0
    /\ mreads' = <<>>

\* the floats of n frames: n*2
Floats(n) == n * 2

\* the call, and with SSE the output of the remaining old frames
atomixMixerMix(fnum) ==
    /\ mpc = "idle"
    /\ mfnum' = fnum
    /\ IF sse /\ rem > 0
       THEN IF fnum > rem
            THEN \* rnum bigger than remaining frames (usual case)
                 \* memcpy(buff, mix->data, mix->rem*2*sizeof(float))
                 /\ mout' = Floats(rem)
                 /\ mbuff' = Written(data, Floats(rem), TRUE)
                 /\ rem' = 0
                 /\ data' = Outdated(data)
                 /\ MixEnterLayers(fnum - rem)
            ELSE \* rnum smaller equal remaining frames (rare case)
                 \* memcpy(buff, mix->data, rnum*2*sizeof(float))
                 /\ mout' = Floats(fnum)
                 /\ mbuff' = Written(data, Floats(fnum), TRUE)
                 /\ rem' = rem - fnum
                 \* if (mix->rem) memmove(mix->data, mix->data + rnum*2,
                 \*                       (3 - rnum)*2*sizeof(float))
                 /\ data' = IF rem - fnum > 0
                            THEN Memcpy(data, Offset(data, Floats(fnum)),
                                        Floats(3 - fnum) * FloatBytes)
                            ELSE data
                 /\ MixReturn
       ELSE \* without SSE: memset(buff, 0, fnum*2*sizeof(float)), and the
            \* layers are mixed into buff
            /\ mout' = IF sse THEN 0 ELSE Floats(fnum)
            /\ mbuff' = <<>>
            /\ UNCHANGED rem
            /\ data' = IF sse THEN Outdated(data) ELSE data
            /\ MixEnterLayers(fnum)
    /\ UNCHANGED <<sse, nid, lays, mixfade, volume>>
    /\ UNCHANGED ctlVars

\* the end of atmxMixLayer: on to the next layer, or out of the loop
MixNextLayer ==
    /\ IF mi + 1 < ATMX_LAYERS
       THEN mpc' = "flag" /\ mi' = mi + 1
       ELSE mpc' = "end" /\ mi' = 0
    /\ mflag' = 0 /\ mcur' = 0 /\ mold' = 0
    /\ mreads' = <<>>
    /\ UNCHANGED <<mfnum, mrnum, mret, mout, mbuff>>

\* uint8_t flag = ATMX_LOAD(&lay->flag); if (flag == 0) return
MixLayerFlag ==
    /\ mpc = "flag"
    /\ IF lays[mi].flag = FREE
       THEN MixNextLayer
       ELSE /\ mpc' = "cursor"
            /\ mflag' = lays[mi].flag
            /\ UNCHANGED <<mfnum, mrnum, mi, mcur, mold, mret, mout, mbuff,
                           mreads>>
    /\ UNCHANGED mixerVars
    /\ UNCHANGED ctlVars

\* int32_t cur = ATMX_LOAD(&lay->cursor)
MixLayerCursor ==
    /\ mpc = "cursor"
    /\ mcur' = lays[mi].cursor
    /\ mpc' = "kernel"
    /\ UNCHANGED <<mfnum, mrnum, mi, mflag, mold, mret, mout, mbuff, mreads>>
    /\ UNCHANGED mixerVars
    /\ UNCHANGED ctlVars

\* whether atmxMixLayer runs a kernel: always when playing or looping, and
\* when stopped or halted if ((lay->fade > 0)&&(cur < lay->end))
RunsKernel(lay, flag, cur) ==
    flag >= 3 \/ (lay.fade > 0 /\ cur < lay.end)

\* the kernel's loop: old = cur, then the rounds
MixLayerKernel ==
    /\ mpc = "kernel"
    /\ IF RunsKernel(lays[mi], mflag, mcur)
       THEN LET r == IF mflag < 3
                     THEN atmxMixFade(lays[mi], mcur, Rounds(mrnum), Step)
                     ELSE atmxMixPlay(lays[mi], mflag = ATOMIX_LOOP, mcur,
                                      Rounds(mrnum), Step)
            IN  /\ mold' = mcur
                /\ mcur' = r.cur
                /\ lays' = [lays EXCEPT ![mi].fade = r.fade]
                /\ mreads' = r.reads
                /\ mpc' = "cas"
       ELSE /\ mpc' = "finish"
            /\ UNCHANGED <<lays, mcur, mold, mreads>>
    /\ UNCHANGED <<mfnum, mrnum, mi, mflag, mret, mout, mbuff>>
    /\ UNCHANGED <<sse, nid, mixfade, rem, volume, data>>
    /\ UNCHANGED ctlVars

\* a variant that runs the kernel again when the swap fails
MixLayerCas_Retry ==
    /\ mpc = "cas"
    /\ IF lays[mi].cursor = mold
       THEN /\ lays' = [lays EXCEPT ![mi].cursor = mcur]
            /\ mpc' = "finish"
            /\ UNCHANGED <<mcur, mold>>
       ELSE /\ mold' = lays[mi].cursor
            /\ mcur' = lays[mi].cursor
            /\ mpc' = "cursor"
            /\ UNCHANGED lays
    /\ UNCHANGED <<mfnum, mrnum, mi, mflag, mret, mout, mbuff, mreads>>
    /\ UNCHANGED <<sse, nid, mixfade, rem, volume, data>>
    /\ UNCHANGED ctlVars

\* a variant that stores the kernel's cursor whatever it finds there
MixLayerCas_Store ==
    /\ mpc = "cas"
    /\ lays' = [lays EXCEPT ![mi].cursor = mcur]
    /\ UNCHANGED <<mcur, mold>>
    /\ mpc' = "finish"
    /\ UNCHANGED <<mfnum, mrnum, mi, mflag, mret, mout, mbuff, mreads>>
    /\ UNCHANGED <<sse, nid, mixfade, rem, volume, data>>
    /\ UNCHANGED ctlVars

\* if (!ATMX_CSWAP(&lay->cursor, &old, cur)) cur = old
MixLayerCas ==
    /\ mpc = "cas"
    /\ IF lays[mi].cursor = mold
       THEN /\ lays' = [lays EXCEPT ![mi].cursor = mcur]
            /\ UNCHANGED <<mcur, mold>>
       ELSE /\ mold' = lays[mi].cursor
            /\ mcur' = lays[mi].cursor
            /\ UNCHANGED lays
    /\ mpc' = "finish"
    /\ UNCHANGED <<mfnum, mrnum, mi, mflag, mret, mout, mbuff, mreads>>
    /\ UNCHANGED <<sse, nid, mixfade, rem, volume, data>>
    /\ UNCHANGED ctlVars

\* a variant that clears a looping layer at its end as well
FinishFlag_LoopEnds(lay, flag, cur, found) ==
    IF flag < 3
    THEN IF flag = ATOMIX_STOP /\ (lay.fade = 0 \/ cur = lay.end)
         THEN FREE ELSE found
    ELSE IF cur = lay.end /\ found = flag
         THEN FREE ELSE found

\* a variant that clears a playing layer at its end with a plain store
FinishFlag_Store(lay, flag, cur, found) ==
    IF flag < 3
    THEN IF flag = ATOMIX_STOP /\ (lay.fade = 0 \/ cur = lay.end)
         THEN FREE ELSE found
    ELSE IF flag = ATOMIX_PLAY /\ cur = lay.end
         THEN FREE ELSE found

\* a variant that leaves a playing layer at its end as it is
FinishFlag_KeepsPlaying(lay, flag, cur, found) ==
    IF flag < 3
    THEN IF flag = ATOMIX_STOP /\ (lay.fade = 0 \/ cur = lay.end)
         THEN FREE ELSE found
    ELSE found

\* a variant that clears a halted layer as it clears a stopped one
FinishFlag_HaltedToo(lay, flag, cur, found) ==
    IF flag < 3
    THEN IF lay.fade = 0 \/ cur = lay.end
         THEN FREE ELSE found
    ELSE IF flag = ATOMIX_PLAY /\ cur = lay.end /\ found = flag
         THEN FREE ELSE found

\* a variant that clears a stopped layer at its end only
FinishFlag_AtEnd(lay, flag, cur, found) ==
    IF flag < 3
    THEN IF flag = ATOMIX_STOP /\ cur = lay.end
         THEN FREE ELSE found
    ELSE IF flag = ATOMIX_PLAY /\ cur = lay.end /\ found = flag
         THEN FREE ELSE found

\* the flag atmxMixLayer leaves behind, given the flag it finds there:
\* stopped and fully faded or at end: ATMX_STORE(&lay->flag, 0);
\* playing and at end: ATMX_CSWAP(&lay->flag, &flag, 0)
FinishFlag(lay, flag, cur, found) ==
    IF flag < 3
    THEN IF flag = ATOMIX_STOP /\ (lay.fade = 0 \/ cur = lay.end)
         THEN FREE ELSE found
    ELSE IF flag = ATOMIX_PLAY /\ cur = lay.end /\ found = flag
         THEN FREE ELSE found

MixLayerFinish ==
    /\ mpc = "finish"
    /\ lays' = [lays EXCEPT ![mi].flag = FinishFlag(lays[mi], mflag, mcur, @)]
    /\ MixNextLayer
    /\ UNCHANGED <<sse, nid, mixfade, rem, volume, data>>
    /\ UNCHANGED ctlVars

\* a variant that copies the whole aligned buffer to buff
MixEnd_WholeBlock ==
    /\ mpc = "end"
    /\ mout' = IF sse THEN mout + Floats(Asize(mrnum) * 2) ELSE mout
    /\ mbuff' = IF sse
                THEN mbuff \o Written(Align(Asize(mrnum)),
                                      Floats(Asize(mrnum) * 2), FALSE)
                ELSE mbuff
    /\ rem' = IF sse THEN Asize(mrnum) * 2 - mrnum ELSE rem
    /\ data' = IF sse /\ rem' > 0
               THEN Memcpy(data, Offset(Align(Asize(mrnum)), Floats(mrnum)),
                           rem')
               ELSE data
    /\ UNCHANGED mfnum
    /\ MixReturn
    /\ UNCHANGED <<sse, nid, lays, mixfade, volume>>
    /\ UNCHANGED ctlVars

\* after the loop: with SSE the frames left over are kept, then return fnum
MixEnd ==
    /\ mpc = "end"
    \* memcpy(buff, align, rnum*2*sizeof(float))
    /\ mout' = IF sse THEN mout + Floats(mrnum) ELSE mout
    /\ mbuff' = IF sse
                THEN mbuff \o Written(Align(Asize(mrnum)), Floats(mrnum), FALSE)
                ELSE mbuff
    \* mix->rem = asize*2 - rnum
    /\ rem' = IF sse THEN Asize(mrnum) * 2 - mrnum ELSE rem
    \* if (mix->rem) memcpy(mix->data, (float*)align + rnum*2, mix->rem)
    /\ data' = IF sse /\ rem' > 0
               THEN Memcpy(data, Offset(Align(Asize(mrnum)), Floats(mrnum)),
                           rem')
               ELSE data
    /\ UNCHANGED mfnum
    /\ MixReturn
    /\ UNCHANGED <<sse, nid, lays, mixfade, volume>>
    /\ UNCHANGED ctlVars

---------------------------------------------------------------------------
(* The two threads running in parallel.  The control thread plays the      *)
(* second sound in any state, moves cursors and states through any handle  *)
(* and the gain through the handle of the first playback, and stops,       *)
(* halts and resumes all; the mix thread asks for blocks of 4 frames.      *)

\* the handles the calls are made with: the ids of the first ATMX_LAYERS
\* playbacks and one more
Handles == 1 .. ATMX_LAYERS + 1
States == ATOMIX_STOP .. ATOMIX_LOOP

ControlCall ==
    \/ /\ nid + ATMX_LAYERS <= MaxNid
       /\ \E flag \in States : atomixMixerPlay(2, flag, 1, 0)
    \/ atomixMixerSetGainPan(ATMX_LAYERS, 1, 2)
    \/ \E id \in Handles : atomixMixerSetCursor(id, 5)
    \/ \E id \in Handles, flag \in States : atomixMixerSetState(id, flag)
    \/ atomixMixerStopAll
    \/ atomixMixerHaltAll
    \/ atomixMixerPlayAll

ControlStep ==
    \/ PlayAdvProbe \/ PlayAdvFill \/ PlayAdvPublish
    \/ SetGainPanStore
    \/ SetCursorStore
    \/ SetStateCas
    \/ StopAllLoad \/ StopAllStore
    \/ HaltAllLoad \/ HaltAllCas
    \/ PlayAllCas
    \/ ControlResume

MixStep ==
    \/ \E k \in 1 .. MaxBlocks : atomixMixerMix(4 * k)
    \/ MixLayerFlag \/ MixLayerCursor \/ MixLayerKernel \/ MixLayerCas
    \/ MixLayerFinish \/ MixEnd
    \/ MixResume

Next == ControlCall \/ ControlStep \/ MixStep

Spec == InitMixer({TRUE}, {0}) /\ [][Next]_vars

---------------------------------------------------------------------------
(* The two threads taking turns: every call runs from start to end while   *)
(* the other thread is idle.  The calls draw on all arguments, invalid     *)
(* ones included, in the build without SSE.                                *)

StateArgs == 0 .. 5
\* start, end, fade of atomixMixerPlayAdv: the first is valid, the second
\* has end < 4, the third end - start < 4
WindowArgs == {<<2, 6, -1>>, <<-4, 0, 0>>, <<2, 5, -1>>}
HandlesSeq == 0 .. MaxNidSeq

ControlTurn == mpc = "idle"
MixTurn == cpc = "idle"

NextSeq ==
    \/ /\ ControlTurn
       /\ nid + ATMX_LAYERS <= MaxNidSeq
       /\ \E flag \in StateArgs : atomixMixerPlay(2, flag, 1, 0)
    \/ /\ ControlTurn
       /\ nid + ATMX_LAYERS <= MaxNidSeq
       /\ \E flag \in {0, ATOMIX_PLAY}, w \in WindowArgs :
             atomixMixerPlayAdv(1, flag, 1, 0, w[1], w[2], w[3])
    \/ ControlTurn /\ \E id \in HandlesSeq : atomixMixerSetGainPan(id, 1, 2)
    \/ ControlTurn /\ \E id \in HandlesSeq : atomixMixerSetCursor(id, 5)
    \/ ControlTurn /\ \E id \in HandlesSeq, flag \in StateArgs :
                         atomixMixerSetState(id, flag)
    \/ ControlTurn /\ atomixMixerStopAll
    \/ ControlTurn /\ atomixMixerHaltAll
    \/ ControlTurn /\ atomixMixerPlayAll
    \/ ControlTurn /\ PlayAdvProbe
    \/ ControlTurn /\ PlayAdvFill
    \/ ControlTurn /\ PlayAdvPublish
    \/ ControlTurn /\ SetGainPanStore
    \/ ControlTurn /\ SetCursorStore
    \/ ControlTurn /\ SetStateCas
    \/ ControlTurn /\ StopAllLoad
    \/ ControlTurn /\ StopAllStore
    \/ ControlTurn /\ HaltAllLoad
    \/ ControlTurn /\ HaltAllCas
    \/ ControlTurn /\ PlayAllCas
    \/ ControlTurn /\ ControlResume
    \/ MixTurn /\ \E k \in 1 .. MaxBlocks : atomixMixerMix(4 * k)
    \/ MixTurn /\ MixLayerFlag
    \/ MixTurn /\ MixLayerCursor
    \/ MixTurn /\ MixLayerKernel
    \/ MixTurn /\ MixLayerCas
    \/ MixTurn /\ MixLayerFinish
    \/ MixTurn /\ MixEnd
    \/ MixTurn /\ MixResume

SpecSeq == InitMixer({FALSE}, {0}) /\ [][NextSeq]_vars

---------------------------------------------------------------------------
(* One playback at a time, with fades, pre-roll and odd frame counts, in   *)
(* both builds.  The control thread plays the first sound (mono, 4 frames) *)
(* in the window 0 .. 8, with or without 4 frames of pre-roll and of fade, *)
(* while no other layer is in use, and changes its state and its cursor;   *)
(* the mix thread asks for 1 .. MaxFrames frames.  The threads take turns. *)

\* start, end, fade of atomixMixerPlayAdv
FadeWindows == {<<0, 8, 4>>, <<-4, 8, 4>>, <<0, 8, 0>>}
FrameArgs == 1 .. MaxFrames

AllFree == \A i \in Slots : lays[i].flag = FREE

\* atomixMixerMix also runs while the control thread has just returned from
\* atomixMixerPlayAdv, so that this call stays visible while its first
\* frames are mixed
FadeMixTurn == cpc = "idle" \/ (cpc = "ret" /\ cargs.op = "PlayAdv")

NextFade ==
    \/ /\ ControlTurn
       /\ AllFree
       /\ nid + ATMX_LAYERS <= MaxNidFade
       /\ \E flag \in States, w \in FadeWindows :
             atomixMixerPlayAdv(1, flag, 1, 0, w[1], w[2], w[3])
    \/ ControlTurn /\ \E id \in Handles : atomixMixerSetCursor(id, 5)
    \/ ControlTurn /\ \E id \in Handles, flag \in States :
                         atomixMixerSetState(id, flag)
    \/ ControlTurn /\ atomixMixerStopAll
    \/ ControlTurn /\ atomixMixerHaltAll
    \/ ControlTurn /\ atomixMixerPlayAll
    \/ ControlTurn /\ PlayAdvProbe
    \/ ControlTurn /\ PlayAdvFill
    \/ ControlTurn /\ PlayAdvPublish
    \/ ControlTurn /\ SetCursorStore
    \/ ControlTurn /\ SetStateCas
    \/ ControlTurn /\ StopAllLoad
    \/ ControlTurn /\ StopAllStore
    \/ ControlTurn /\ HaltAllLoad
    \/ ControlTurn /\ HaltAllCas
    \/ ControlTurn /\ PlayAllCas
    \/ ControlTurn /\ ControlResume
    \/ FadeMixTurn /\ \E fnum \in FrameArgs : atomixMixerMix(fnum)
    \/ FadeMixTurn /\ MixLayerFlag
    \/ FadeMixTurn /\ MixLayerCursor
    \/ FadeMixTurn /\ MixLayerKernel
    \/ FadeMixTurn /\ MixLayerCas
    \/ FadeMixTurn /\ MixLayerFinish
    \/ FadeMixTurn /\ MixEnd
    \/ FadeMixTurn /\ MixResume

SpecFade == InitMixer({TRUE, FALSE}, {0}) /\ [][NextFade]_vars

---------------------------------------------------------------------------
(* Stopping several playbacks.  As above, but the layers are in use        *)
(* together, and atomixMixerMix also runs while the control thread has     *)
(* just returned from atomixMixerStopAll, so that this call stays visible  *)
(* during the mix call that follows it.  The build with SSE is asked for   *)
(* 1 .. MaxFrames frames, which exercises its carry-over; the build        *)
(* without for whole blocks of 4.                                          *)

StopFrameArgs ==
    IF sse THEN FrameArgs ELSE {4 * k : k \in 1 .. MaxFrames \div 4}

StopControlTurn == mpc = "idle"
StopMixTurn == cpc = "idle" \/ (cpc = "ret" /\ cargs.op = "StopAll")

NextStop ==
    \/ /\ StopControlTurn
       /\ nid + ATMX_LAYERS <= MaxNidStop
       /\ \E flag \in States, w \in FadeWindows :
             atomixMixerPlayAdv(1, flag, 1, 0, w[1], w[2], w[3])
    \/ StopControlTurn /\ \E id \in Handles, flag \in States :
                             atomixMixerSetState(id, flag)
    \/ StopControlTurn /\ atomixMixerStopAll
    \/ StopControlTurn /\ atomixMixerHaltAll
    \/ StopControlTurn /\ atomixMixerPlayAll
    \/ StopControlTurn /\ PlayAdvProbe
    \/ StopControlTurn /\ PlayAdvFill
    \/ StopControlTurn /\ PlayAdvPublish
    \/ StopControlTurn /\ SetStateCas
    \/ StopControlTurn /\ StopAllLoad
    \/ StopControlTurn /\ StopAllStore
    \/ StopControlTurn /\ HaltAllLoad
    \/ StopControlTurn /\ HaltAllCas
    \/ StopControlTurn /\ PlayAllCas
    \/ StopControlTurn /\ ControlResume
    \/ StopMixTurn /\ \E fnum \in StopFrameArgs : atomixMixerMix(fnum)
    \/ StopMixTurn /\ MixLayerFlag
    \/ StopMixTurn /\ MixLayerCursor
    \/ StopMixTurn /\ MixLayerKernel
    \/ StopMixTurn /\ MixLayerCas
    \/ StopMixTurn /\ MixLayerFinish
    \/ StopMixTurn /\ MixEnd
    \/ StopMixTurn /\ MixResume

SpecStop == InitMixer({TRUE, FALSE}, {0}) /\ [][NextStop]_vars


---------------------------------------------------------------------------
(* What the properties below speak about. *)

\* the three functions that take a handle
SetOps == {"SetGainPan", "SetCursor", "SetState"}

\* this step is the call of one of them, arguments in cargs'
SetCalled == cpc = "idle" /\ cpc' # "idle" /\ cargs'.op \in SetOps

\* this step is a call of atomixMixerSetState, arguments in cargs'
SetStateCalled == cpc = "idle" /\ cpc' # "idle" /\ cargs'.op = "SetState"

\* this step is a call of atomixMixerPlayAdv, arguments in cargs'
PlayCalled == cpc = "idle" /\ cpc' # "idle" /\ cargs'.op = "PlayAdv"

\* this step makes the control thread return val
Returns(val) == cpc # "ret" /\ cpc' = "ret" /\ cret' = val

\* a layer nobody plays: its flag is 0 or ATOMIX_STOP
Stopped(i) == lays[i].flag \in {FREE, ATOMIX_STOP}
AllStopped == \A i \in Slots : Stopped(i)

\* this step is the flag store at the end of a play call
Publishes == cpc = "publish" /\ cpc' = "ret"

---------------------------------------------------------------------------
(* Every operation of the interface, the two threads running in parallel,  *)
(* in the build with SSE.  The control thread plays the second sound with  *)
(* the default fade of the moment; stores gain and cursor through the      *)
(* handle of the first playback, and halts and loops it; sets volume and   *)
(* default fade; and stops, halts and resumes all.  The mix thread asks    *)
(* for 4 frames at a time.                                                 *)

NextWait ==
    \/ /\ nid + ATMX_LAYERS <= MaxNidWait
       /\ atomixMixerPlay(2, ATOMIX_PLAY, 1, 0)
    \/ atomixMixerSetGainPan(ATMX_LAYERS, 1, 0)
    \/ atomixMixerSetCursor(ATMX_LAYERS, 5)
    \/ \E flag \in {ATOMIX_HALT, ATOMIX_LOOP} :
          atomixMixerSetState(ATMX_LAYERS, flag)
    \/ atomixMixerVolume(0)
    \/ atomixMixerFade(4)
    \/ atomixMixerStopAll
    \/ atomixMixerHaltAll
    \/ atomixMixerPlayAll
    \/ PlayAdvProbe
    \/ PlayAdvFill
    \/ PlayAdvPublish
    \/ SetGainPanStore
    \/ SetCursorStore
    \/ SetStateCas
    \/ StopAllLoad
    \/ StopAllStore
    \/ HaltAllLoad
    \/ HaltAllCas
    \/ PlayAllCas
    \/ ControlResume
    \/ atomixMixerMix(4)
    \/ MixLayerFlag
    \/ MixLayerCursor
    \/ MixLayerKernel
    \/ MixLayerCas
    \/ MixLayerFinish
    \/ MixEnd
    \/ MixResume

SpecWait == InitMixer({TRUE}, {0}) /\ [][NextWait]_vars

---------------------------------------------------------------------------
(* Layers used again, the two threads running in parallel, in the build    *)
(* with SSE and with a default fade of 4 frames.  The control thread plays *)
(* the second sound, started playing or stopped, as long as nid allows,    *)
(* stops and moves playbacks through any handle, and stops all; the mix    *)
(* thread asks for 4 frames at a time and frees the layers that are        *)
(* stopped or at their end.                                                *)

NextReuse ==
    \/ /\ nid + ATMX_LAYERS <= MaxNidReuse
       /\ \E flag \in {ATOMIX_STOP, ATOMIX_PLAY} : atomixMixerPlay(2, flag, 1, 0)
    \/ \E id \in Handles : atomixMixerSetState(id, ATOMIX_STOP)
    \/ \E id \in Handles : atomixMixerSetCursor(id, 5)
    \/ atomixMixerStopAll
    \/ PlayAdvProbe
    \/ PlayAdvFill
    \/ PlayAdvPublish
    \/ SetStateCas
    \/ SetCursorStore
    \/ StopAllLoad
    \/ StopAllStore
    \/ ControlResume
    \/ atomixMixerMix(4)
    \/ MixLayerFlag
    \/ MixLayerCursor
    \/ MixLayerKernel
    \/ MixLayerCas
    \/ MixLayerFinish
    \/ MixEnd
    \/ MixResume

SpecReuse == InitMixer({TRUE}, {4}) /\ [][NextReuse]_vars

---------------------------------------------------------------------------
(* Moving the cursor under the kernel.  The two threads run in parallel,   *)
(* in both builds.  The control thread plays the second sound (stereo, 8   *)
(* frames) with 4 frames of pre-roll and a fade of 4 frames, moves the     *)
(* cursor of the first playback, and stops, halts and loops it; the mix    *)
(* thread asks for 4 frames at a time with SSE, for 3 without.             *)

\* the cursor arguments of atomixMixerSetCursor: before start, within the
\* pre-roll, within the sound, and after end
CursorArgs == {-7, -3, 6, 11}

\* start, end, fade of atomixMixerPlayAdv
CursorWindows == {<<-4, 8, 4>>}

CursorFrameArgs == IF sse THEN {4} ELSE {3}

NextCursor ==
    \/ /\ nid + ATMX_LAYERS <= MaxNidCursor
       /\ \E w \in CursorWindows :
             atomixMixerPlayAdv(2, ATOMIX_PLAY, 1, 0, w[1], w[2], w[3])
    \/ \E c \in CursorArgs : atomixMixerSetCursor(ATMX_LAYERS, c)
    \/ \E flag \in {ATOMIX_STOP, ATOMIX_HALT, ATOMIX_LOOP} :
          atomixMixerSetState(ATMX_LAYERS, flag)
    \/ PlayAdvProbe
    \/ PlayAdvFill
    \/ PlayAdvPublish
    \/ SetCursorStore
    \/ SetStateCas
    \/ ControlResume
    \/ \E fnum \in CursorFrameArgs : atomixMixerMix(fnum)
    \/ MixLayerFlag
    \/ MixLayerCursor
    \/ MixLayerKernel
    \/ MixLayerCas
    \/ MixLayerFinish
    \/ MixEnd
    \/ MixResume

SpecCursor == InitMixer({TRUE, FALSE}, {0}) /\ [][NextCursor]_vars

---------------------------------------------------------------------------
(* Waiting for layers to be released.  The two threads run in parallel, in *)
(* both builds.  The control thread plays the first sound in the window    *)
(* 0 .. 8, stopped or playing, with and without a fade of 4 frames, stops, *)
(* halts and resumes the first playback, moves its cursor, and stops all.  *)
(* The mix thread asks for 3 or 4 frames, again and again: the audio       *)
(* callback is called as long as the device runs, so every step of the mix *)
(* thread that can be taken is taken in the end.                           *)

ReleaseWindows == {<<0, 8, 4>>, <<0, 8, 0>>}
\* with SSE 3 frames as well, so that frames are carried over to later calls
ReleaseFrameArgs == IF sse THEN {3, 4} ELSE {4}

ControlRelease ==
    \/ /\ nid + ATMX_LAYERS <= MaxNidRelease
       /\ \E flag \in {ATOMIX_STOP, ATOMIX_PLAY}, w \in ReleaseWindows :
             atomixMixerPlayAdv(1, flag, 1, 0, w[1], w[2], w[3])
    \/ \E flag \in {ATOMIX_STOP, ATOMIX_HALT, ATOMIX_PLAY} :
          atomixMixerSetState(ATMX_LAYERS, flag)
    \/ atomixMixerSetCursor(ATMX_LAYERS, 5)
    \/ atomixMixerStopAll
    \/ PlayAdvProbe
    \/ PlayAdvFill
    \/ PlayAdvPublish
    \/ SetStateCas
    \/ SetCursorStore
    \/ StopAllLoad
    \/ StopAllStore
    \/ ControlResume

MixRelease ==
    \/ \E fnum \in ReleaseFrameArgs : atomixMixerMix(fnum)
    \/ MixLayerFlag
    \/ MixLayerCursor
    \/ MixLayerKernel
    \/ MixLayerCas
    \/ MixLayerFinish
    \/ MixEnd
    \/ MixResume

NextRelease == ControlRelease \/ MixRelease

SpecRelease ==
    /\ InitMixer({TRUE, FALSE}, {0})
    /\ [][NextRelease]_vars
    /\ WF_vars(MixRelease)

---------------------------------------------------------------------------
(* Halting and resuming all layers.  The threads take turns; the control   *)
(* thread starts playbacks in any state, and it calls atomixMixerHaltAll   *)
(* and, as soon as that has returned, atomixMixerPlayAll.  The mix thread  *)
(* runs between the calls of the control thread, but not between these     *)
(* two.  For the properties, the record of the arguments of the two calls  *)
(* carries the layers as they were when atomixMixerHaltAll was called.     *)

RoundWindows == {<<0, 8, 4>>}
RoundFrameArgs == {4}

\* atomixMixerHaltAll(mix), called with the mix thread at rest
RoundHaltAll ==
    /\ cpc = "idle"
    /\ cargs' = [op |-> "HaltAll", before |-> lays]
    /\ Goto("HaltAll_load")
    /\ UNCHANGED mixerVars
    /\ UNCHANGED mixVars

\* atomixMixerPlayAll(mix), called when atomixMixerHaltAll has returned
RoundPlayAll ==
    /\ cpc = "ret"
    /\ cargs.op = "HaltAll"
    /\ cargs' = [op |-> "PlayAll", before |-> cargs.before]
    /\ cret' = NoRet
    /\ Goto("PlayAll_cas")
    /\ UNCHANGED mixerVars
    /\ UNCHANGED mixVars

RoundControlTurn == mpc = "idle"
RoundMixTurn == cpc = "idle"

NextRound ==
    \/ /\ RoundControlTurn
       /\ nid + ATMX_LAYERS <= MaxNidRound
       /\ \E flag \in States, w \in RoundWindows :
             atomixMixerPlayAdv(1, flag, 1, 0, w[1], w[2], w[3])
    \/ RoundControlTurn /\ PlayAdvProbe
    \/ RoundControlTurn /\ PlayAdvFill
    \/ RoundControlTurn /\ PlayAdvPublish
    \/ RoundControlTurn /\ RoundHaltAll
    \/ RoundControlTurn /\ HaltAllLoad
    \/ RoundControlTurn /\ HaltAllCas
    \/ RoundControlTurn /\ RoundPlayAll
    \/ RoundControlTurn /\ PlayAllCas
    \/ RoundControlTurn /\ cargs.op # "HaltAll" /\ ControlResume
    \/ RoundMixTurn /\ \E fnum \in RoundFrameArgs : atomixMixerMix(fnum)
    \/ RoundMixTurn /\ MixLayerFlag
    \/ RoundMixTurn /\ MixLayerCursor
    \/ RoundMixTurn /\ MixLayerKernel
    \/ RoundMixTurn /\ MixLayerCas
    \/ RoundMixTurn /\ MixLayerFinish
    \/ RoundMixTurn /\ MixEnd
    \/ RoundMixTurn /\ MixResume

SpecRound == InitMixer({TRUE, FALSE}, {0}) /\ [][NextRound]_vars

---------------------------------------------------------------------------
(* The window of a playback.  The control thread calls atomixMixerPlayAdv  *)
(* with start, end and fade that are no multiples of 4, negative ones      *)
(* included, and with windows that are too short or end too early; one     *)
(* playback is started, the mix thread is at rest.                         *)

StartArgs == -5 .. 5
EndArgs == 3 .. 9
FadeArgs == {-5, -1, 0, 3, 4, 7, 8}

NextWindow ==
    \/ /\ AllFree
       /\ \E flag \in States, start \in StartArgs, end \in EndArgs,
             fade \in FadeArgs :
             atomixMixerPlayAdv(1, flag, 1, 0, start, end, fade)
    \/ PlayAdvProbe
    \/ PlayAdvFill
    \/ PlayAdvPublish
    \/ ControlResume

SpecWindow == InitMixer({FALSE}, {0}) /\ [][NextWindow]_vars

---------------------------------------------------------------------------
(* C1 *)

\* C1: when a play call takes a slot that had an id before, the id it
\* writes differs from that id, so the handle of the earlier playback
\* does not name the new one.
C1_ReusedSlotGetsNewId ==
    [][(cpc = "fill" /\ cpc' = "publish" /\ lays[LayerOf(cid)].id # 0)
          => lays'[LayerOf(cid)].id # lays[LayerOf(cid)].id]_vars

\* the case: a slot that had id ATMX_LAYERS is about to be filled again
C1_SlotReused ==
    /\ cpc = "fill"
    /\ lays[LayerOf(cid)].id = ATMX_LAYERS
    /\ cid = ATMX_LAYERS


---------------------------------------------------------------------------
(* C2 *)

\* C2: when atomixMixerStopAll returns, whatever the mix thread was doing
\* meanwhile, every layer's flag is 0 or ATOMIX_STOP; while that is so it
\* stays so until a play call stores its flag; and while that is so every
\* call of SetGainPan, SetCursor or SetState, with whatever handle, takes
\* its failure return.
C2_StopAllInvalidates ==
    [][/\ (cargs.op = "StopAll" /\ cpc # "ret" /\ cpc' = "ret") => AllStopped'
       /\ (AllStopped /\ ~Publishes) => AllStopped'
       /\ (AllStopped /\ SetCalled) => Returns(RetFailure)]_vars

\* the case: atomixMixerStopAll has just returned, it has stopped a layer
\* that a handle names, and the mix thread is in the middle of a layer
C2_StopAllReturned ==
    /\ cpc = "ret"
    /\ cargs.op = "StopAll"
    /\ mpc \in {"cursor", "kernel", "cas", "finish"}
    /\ \E i \in Slots : lays[i].id # 0 /\ lays[i].flag = ATOMIX_STOP
    /\ \A i \in Slots : lays[i].id # 0

---------------------------------------------------------------------------
(* C3 *)

\* C3: a layer whose flag is 0 or ATOMIX_STOP keeps a flag of 0 or
\* ATOMIX_STOP through every step but the flag store of a play call into
\* that layer, and a call of SetGainPan, SetCursor or SetState with a
\* handle of such a layer takes its failure return.
C3_StoppedStaysInvalid ==
    [][\A i \in Slots :
          Stopped(i) =>
             /\ ~(Publishes /\ LayerOf(cid) = i) => Stopped(i)'
             /\ (SetCalled /\ LayerOf(cargs'.id) = i) => Returns(RetFailure)]_vars

\* the case: a call with the handle the layer carries has just failed,
\* because the layer's flag is ATOMIX_STOP or 0
C3_StaleHandleRefused ==
    /\ cpc = "ret"
    /\ cargs.op \in SetOps
    /\ cret = RetFailure
    /\ lays[LayerOf(cargs.id)].id = cargs.id
    /\ Stopped(LayerOf(cargs.id))


---------------------------------------------------------------------------
(* C4 *)

\* arguments that pass the validation of atomixMixerPlayAdv
ArgsOk(a) == a.flag \in 1 .. 4 /\ a.end - a.start >= 4 /\ a.end >= 4

NoneFree == \A i \in Slots : lays[i].flag # FREE

\* C4: with the threads taking turns, a play call with valid arguments
\* starts probing at slot nid mod ATMX_LAYERS; each probe that finds its
\* slot taken moves on to the next slot; probing changes no layer; the
\* call takes the first free slot in that order and then returns a
\* nonzero handle; it returns 0 only after ATMX_LAYERS probes, and then
\* no layer is free.
C4_PlayFindsFreeSlot ==
    [][/\ (PlayCalled /\ ArgsOk(cargs')) => (cpc' = "probe" /\ ci' = 0 /\ nid' = nid)
       /\ cpc = "probe" =>
             /\ lays' = lays
             /\ nid' = nid + 1
             /\ cpc' \in {"probe", "fill", "ret"}
       /\ (cpc = "probe" /\ cpc' = "probe") =>
             /\ lays[LayerOf(nid)].flag # FREE
             /\ ci' = ci + 1
       /\ (cpc = "probe" /\ cpc' = "fill") =>
             /\ lays[LayerOf(nid)].flag = FREE
             /\ \A k \in 1 .. ci : lays[LayerOf(nid - k)].flag # FREE
             /\ ci < ATMX_LAYERS
             /\ cid' = nid
       /\ (cpc = "probe" /\ cpc' = "ret") =>
             /\ cret' = 0
             /\ ci = ATMX_LAYERS - 1
             /\ NoneFree
       /\ cpc = "fill" =>
             /\ cpc' = "publish"
             /\ LayerOf(cid') = LayerOf(cid)
             /\ \A i \in Slots \ {LayerOf(cid)} : lays'[i] = lays[i]
       /\ cpc = "publish" =>
             /\ Returns(cret')
             /\ cret' # 0
             /\ \A i \in Slots \ {LayerOf(cid)} : lays'[i] = lays[i]]_vars

\* the case: with no layer free, the play call after ATMX_LAYERS
\* successful ones has returned 0
C4_NoSlotLeft ==
    /\ cpc = "ret"
    /\ cargs.op = "PlayAdv"
    /\ ArgsOk(cargs)
    /\ cret = 0
    /\ nid = 2 * ATMX_LAYERS
    /\ \A i \in Slots : lays[i].flag \in {ATOMIX_PLAY, ATOMIX_LOOP}

---------------------------------------------------------------------------
(* C5 *)

\* C5: the step that ends a successful play call returns a nonzero
\* handle h, and after it the layer LayerOf(h) has id h and the flag the
\* call asked for; a play call returns nonzero at no other step; the id
\* written for counter value 0 is ATMX_LAYERS.
C5_HandleNamesLayer ==
    [][/\ Publishes =>
             /\ cret' # 0
             /\ lays'[LayerOf(cret')].id = cret'
             /\ lays'[LayerOf(cret')].flag = cargs.flag
       /\ (cargs.op = "PlayAdv" /\ cpc # "ret" /\ cpc' = "ret" /\ cret' # 0)
             => Publishes
       /\ (cpc = "fill" /\ cpc' = "publish") =>
             lays'[LayerOf(cid)].id = (IF cid = 0 THEN ATMX_LAYERS ELSE cid)]_vars

\* the case: the play call that took counter value 0 has returned
\* ATMX_LAYERS, while the mix thread is at work
C5_FirstHandle ==
    /\ cpc = "ret"
    /\ cargs.op = "PlayAdv"
    /\ cret = ATMX_LAYERS
    /\ lays[0].id = ATMX_LAYERS
    /\ lays[0].flag = cargs.flag
    /\ mpc # "idle"

---------------------------------------------------------------------------
(* C6 *)

\* C6: a call of atomixMixerPlayAdv with a state outside 1 .. 4, or with
\* end - start < 4, or with end < 4, returns 0 at once and changes
\* neither nid nor any layer nor anything else of the mixer; a call of
\* atomixMixerSetState with a state outside 1 .. 4 takes its failure
\* return at once and changes nothing of the mixer.
C6_BadArgumentChangesNothing ==
    [][/\ (PlayCalled /\ ~ArgsOk(cargs')) =>
             (Returns(0) /\ nid' = nid /\ lays' = lays /\ UNCHANGED mixerVars)
       /\ (SetStateCalled /\ cargs'.flag \notin 1 .. 4) =>
             (Returns(RetFailure) /\ lays' = lays /\ UNCHANGED mixerVars)]_vars

\* the case: a play call whose only fault is end < 4 has returned 0,
\* with a layer in use
C6_EndTooSmall ==
    /\ cpc = "ret"
    /\ cargs.op = "PlayAdv"
    /\ cargs.flag \in 1 .. 4
    /\ cargs.end - cargs.start >= 4
    /\ cargs.end < 4
    /\ cret = 0
    /\ \E i \in Slots : lays[i].flag # FREE

---------------------------------------------------------------------------
(* C7 *)

\* C7: a call of SetGainPan, SetCursor or SetState whose handle differs
\* from the id of its slot, or whose slot has flag 0 or ATOMIX_STOP when
\* the call checks it, takes its failure return at once and writes no
\* field of any layer.
C7_InvalidHandleWritesNothing ==
    [][(/\ SetCalled
        /\ \/ lays[LayerOf(cargs'.id)].id # cargs'.id
           \/ Stopped(LayerOf(cargs'.id)))
          => (Returns(RetFailure) /\ lays' = lays)]_vars

\* the case: a call with a handle that is not the id of its slot has
\* failed, though the layer in that slot is live
C7_WrongIdRefused ==
    /\ cpc = "ret"
    /\ cargs.op \in SetOps
    /\ cret = RetFailure
    /\ lays[LayerOf(cargs.id)].id # cargs.id
    /\ lays[LayerOf(cargs.id)].flag > 1


---------------------------------------------------------------------------
(* C8 *)

\* the layer of the handle of the call in progress
Target == LayerOf(cargs.id)

\* this step is the compare-and-swap of atomixMixerSetState, and it swaps
SetStateSwaps == cpc = "SetState_cas" /\ cpc' = "ret" /\ lays[Target].flag = cprev

\* C8: SetGainPan, SetCursor and SetState return 0 when they have applied
\* the update, and a value other than 0 when the handle is not valid.
C8_ZeroMeansSuccess ==
    [][/\ (cpc \in {"SetGainPan_store", "SetCursor_store"} /\ cpc' = "ret")
             => cret' = 0
       /\ SetStateSwaps => cret' = 0
       /\ (SetCalled /\ lays[LayerOf(cargs'.id)].id # cargs'.id)
             => (cpc' = "ret" /\ cret' # 0)]_vars

---------------------------------------------------------------------------
(* C9 *)

\* C9: a call of atomixMixerSetState with a valid handle and state
\* returns success at once, writing nothing, when the flag it reads is
\* the requested one; otherwise it goes on, with the flag it read, to one
\* compare-and-swap, after which it returns: success, with the flag now
\* the requested one, when the flag still was the one read, and failure,
\* with the flag untouched, when it was not. Steps of the mix thread may
\* come between the read and the compare-and-swap.
C9_SetStateOnceOnly ==
    [][/\ (/\ SetStateCalled
           /\ cargs'.flag \in 1 .. 4
           /\ lays[LayerOf(cargs'.id)].id = cargs'.id
           /\ lays[LayerOf(cargs'.id)].flag > 1) =>
             /\ lays' = lays
             /\ IF lays[LayerOf(cargs'.id)].flag = cargs'.flag
                THEN Returns(RetSuccess)
                ELSE cpc' = "SetState_cas" /\ cprev' = lays[LayerOf(cargs'.id)].flag
       /\ (cpc = "SetState_cas" /\ cpc' # cpc) =>
             /\ cpc' = "ret"
             /\ cret' \in {RetSuccess, RetFailure}
             /\ cret' = RetSuccess <=> lays[Target].flag = cprev
             /\ cret' = RetSuccess => lays'[Target].flag = cargs.flag
             /\ cret' = RetFailure => lays' = lays
       /\ (cpc = "SetState_cas" /\ cpc' = cpc) => UNCHANGED <<cargs, cprev>>]_vars

\* the case: the call has read ATOMIX_PLAY, the mix thread has freed the
\* layer since, and the compare-and-swap is about to find that
C9_FlagMovedSinceRead ==
    /\ cpc = "SetState_cas"
    /\ cprev = ATOMIX_PLAY
    /\ lays[Target].flag = FREE
    /\ lays[Target].id = cargs.id

---------------------------------------------------------------------------
(* C10 *)

\* the states a handle function may be asked for
Playable == {ATOMIX_STOP, ATOMIX_HALT, ATOMIX_PLAY, ATOMIX_LOOP}

\* this step belongs to a call of atomixMixerSetState
SetStateStep == SetStateCalled \/ (cpc = "SetState_cas" /\ cpc' # cpc)

\* a call of atomixMixerSetState for a layer that carries the handle and
\* has a flag in from, asking for another state, goes on to the
\* compare-and-swap and, the flag still being the same there, stores the
\* requested state
MovesFrom(from) ==
    /\ (/\ SetStateCalled
        /\ cargs'.flag \in Playable
        /\ lays[LayerOf(cargs'.id)].id = cargs'.id
        /\ lays[LayerOf(cargs'.id)].flag \in from
        /\ lays[LayerOf(cargs'.id)].flag # cargs'.flag)
          => cpc' = "SetState_cas"
    /\ SetStateSwaps => lays'[Target].flag = cargs.flag

\* no step of atomixMixerSetState changes a flag that is in kept, and none
\* sets a flag to 0
Keeps(kept) ==
    SetStateStep =>
       \A i \in Slots :
          /\ lays[i].flag \in kept => lays'[i].flag = lays[i].flag
          /\ lays'[i].flag = FREE => lays[i].flag = FREE

\* C10 as the specification words it: atomixMixerSetState can move the
\* flag of the layer that carries the handle from any of ATOMIX_STOP,
\* ATOMIX_HALT, ATOMIX_PLAY, ATOMIX_LOOP to any of them; it changes no
\* flag that is 0 and sets no flag to 0.
C10_MovesFromAnyState == [][MovesFrom(Playable) /\ Keeps({FREE})]_vars

\* C10: atomixMixerSetState can move the flag of the layer that carries
\* the handle from any of ATOMIX_HALT, ATOMIX_PLAY, ATOMIX_LOOP to any of
\* ATOMIX_STOP, ATOMIX_HALT, ATOMIX_PLAY, ATOMIX_LOOP; it changes no flag
\* that is 0 or ATOMIX_STOP and sets no flag to 0.
C10_MovesFromLiveState ==
    [][MovesFrom(Playable \ {ATOMIX_STOP}) /\ Keeps({FREE, ATOMIX_STOP})]_vars

\* the case: atomixMixerSetState has just moved a layer to ATOMIX_STOP, next to a
\* looping one
C10_LoopStopped ==
    /\ cpc = "ret"
    /\ cargs.op = "SetState"
    /\ cargs.flag = ATOMIX_STOP
    /\ cret = RetSuccess
    /\ lays[Target].id = cargs.id
    /\ lays[Target].flag = ATOMIX_STOP
    /\ \E i \in Slots : lays[i].flag = ATOMIX_LOOP


---------------------------------------------------------------------------
(* C11 *)

\* this step is a step of the control thread
ControlMoves == ctlVars' # ctlVars

\* this step makes the call op return
Finishes(op) == cargs.op = op /\ cpc # "ret" /\ cpc' = "ret"

\* C11: when atomixMixerHaltAll returns, whatever the mix thread did
\* meanwhile, no layer has flag ATOMIX_PLAY or ATOMIX_LOOP; and no step of
\* atomixMixerHaltAll changes a flag that is 0, ATOMIX_STOP or ATOMIX_HALT,
\* or sets a flag to anything but ATOMIX_HALT.
C11_HaltAllHaltsAll ==
    [][/\ Finishes("HaltAll") =>
             \A i \in Slots : lays'[i].flag \notin {ATOMIX_PLAY, ATOMIX_LOOP}
       /\ (cargs.op = "HaltAll" /\ ControlMoves) =>
             \A i \in Slots :
                /\ lays[i].flag \in {FREE, ATOMIX_STOP, ATOMIX_HALT}
                      => lays'[i].flag = lays[i].flag
                /\ lays'[i].flag # lays[i].flag => lays'[i].flag = ATOMIX_HALT]_vars

\* the case: atomixMixerHaltAll has returned with a layer halted, one layer
\* freed, and the mix thread inside its call
C11_HaltAllReturned ==
    /\ cpc = "ret"
    /\ cargs.op = "HaltAll"
    /\ mpc \notin {"idle", "ret"}
    /\ \E i \in Slots : lays[i].flag = ATOMIX_HALT
    /\ \E i \in Slots : lays[i].flag = FREE /\ lays[i].id # 0

---------------------------------------------------------------------------
(* C12 *)

\* C12: atomixMixerPlayAll goes through the layers from the first to the
\* last; its step for a layer sets the flag to ATOMIX_PLAY if it is
\* ATOMIX_HALT and leaves it otherwise, and changes nothing else; when it
\* returns no layer has flag ATOMIX_HALT.
C12_PlayAllResumesHalted ==
    [][/\ (cpc = "idle" /\ cargs'.op = "PlayAll") => (ci' = 0 /\ lays' = lays)
       /\ (cpc = "PlayAll_cas" /\ ControlMoves) =>
             /\ lays' = [lays EXCEPT ![ci].flag =
                            IF lays[ci].flag = ATOMIX_HALT
                            THEN ATOMIX_PLAY ELSE lays[ci].flag]
             /\ IF ci = ATMX_LAYERS - 1
                THEN cpc' = "ret"
                ELSE cpc' = cpc /\ ci' = ci + 1
       /\ Finishes("PlayAll") =>
             \A i \in Slots : lays'[i].flag # ATOMIX_HALT]_vars

\* the case: atomixMixerPlayAll has returned, with one layer playing, the
\* other looping, and the mix thread inside its call
C12_PlayAllReturned ==
    /\ cpc = "ret"
    /\ cargs.op = "PlayAll"
    /\ mpc \notin {"idle", "ret"}
    /\ \E i \in Slots : lays[i].flag = ATOMIX_PLAY
    /\ \E i \in Slots : lays[i].flag = ATOMIX_LOOP

---------------------------------------------------------------------------
(* C13 *)

\* atomixMixerStopAll has returned and a call of atomixMixerMix that began
\* after that has come to pc; no other control call was made in between
AfterStopAll(pc) == cpc = "ret" /\ cargs.op = "StopAll" /\ mpc = pc

\* C13, as the code has it: after atomixMixerStopAll and then a complete call
\* of atomixMixerMix for N frames, with no control call in between, every
\* layer with N >= fmax + 4 has flag 0, whatever its fade length and its
\* cursor; so with N >= the largest fade length + 4 every layer has flag 0.
C13_StopAllThenMixFreesAll ==
    AfterStopAll("ret") =>
        \A i \in Slots : mret >= lays[i].fmax + 4 => lays[i].flag = FREE

\* C13 as stated: in such a call of atomixMixerMix with N >= fmax + 4,
\* atmxMixLayer clears the flag of a layer it finds in use, except that of a
\* layer whose fade length is 0 and whose cursor is not at end, which it
\* leaves for further calls.
C13_ZeroFadeNeedsMoreCalls ==
    [][(AfterStopAll("finish") /\ mfnum >= lays[mi].fmax + 4) =>
          (lays'[mi].flag = FREE <=>
              ~(lays[mi].fmax = 0 /\ mcur # lays[mi].end))]_vars

\* atomixMixerStopAll found both layers in use, one with a fade of 4 frames
\* and one without; the call of atomixMixerMix for MaxFrames frames that
\* followed has faded the one out before its end, and both are free
C13_BothFreed ==
    /\ AfterStopAll("ret")
    /\ mret = MaxFrames
    /\ \A i \in Slots : lays[i].flag = FREE /\ lays[i].id # 0
    /\ \E i \in Slots : /\ lays[i].fmax = 4 /\ lays[i].fade = 0
                        /\ lays[i].cursor \notin {lays[i].start, lays[i].end}
    /\ \E i \in Slots : lays[i].fmax = 0 /\ lays[i].cursor # lays[i].end

---------------------------------------------------------------------------
(* C14 *)

\* C14: when atomixMixerMix(fnum) has returned, it has returned fnum and has
\* written fnum*2 floats to buff, in both builds and for every state of the
\* layers and every number of frames left over from the call before, also
\* when these alone satisfy the call.
C14_MixWritesAllFrames ==
    mpc = "ret" => (mret = mfnum /\ mout = 2 * mfnum)

\* a call for 2 frames that found 3 frames left over and returned without
\* mixing, while a layer was playing
C14_ServedFromCarryOver ==
    /\ sse /\ mpc = "ret" /\ mret = 2 /\ mout = 4 /\ rem = 1
    /\ \E i \in Slots : lays[i].flag = ATOMIX_PLAY

---------------------------------------------------------------------------
(* C15 *)

\* atomixMixerPlayAdv has returned the handle of a layer it started with one
\* of flags, and no other control call was made since
Started(flags) ==
    cpc = "ret" /\ cargs.op = "PlayAdv" /\ cret # 0 /\ cargs.flag \in flags

\* the step of the mix thread that runs the kernel on that layer for the first
\* time: its cursor is still at start
FirstKernel(flags) ==
    /\ Started(flags)
    /\ mpc = "kernel" /\ mpc' = "cas"
    /\ mi = LayerOf(cret)
    /\ mcur = lays[mi].start

\* the step of atomixMixerPlayAdv that releases the layer it has filled in
Releases == cpc = "publish" /\ cpc' = "ret"

\* C15, as the code has it: a layer that starts in ATOMIX_PLAY or ATOMIX_LOOP
\* is released with fade = fmax, and its first mixed frames are at full
\* level (no fade in); a layer that starts in ATOMIX_STOP or ATOMIX_HALT is
\* released with fade = 0.
C15_PlayingStartsFadedIn ==
    [][/\ Releases =>
             LET lay == lays'[LayerOf(cid)]
             IN  lay.fade = IF cargs.flag \in {ATOMIX_PLAY, ATOMIX_LOOP}
                            THEN lay.fmax ELSE 0
       /\ FirstKernel({ATOMIX_PLAY, ATOMIX_LOOP}) =>
             /\ mreads' # <<>>
             /\ \A r \in DOMAIN mreads' : mreads'[r].num = mreads'[r].den
             /\ lays'[mi].fade = lays[mi].fmax]_vars

\* C15 as stated: a layer that starts in ATOMIX_PLAY or ATOMIX_LOOP is released
\* with fade = 0, and with fmax = 4 and without SSE its first four mixed frames
\* have the factors 0, 1, 2, 3 of 4; a layer that starts in ATOMIX_STOP or
\* ATOMIX_HALT is released with fade = fmax.
C15_PlayingStartsFadedOut ==
    [][/\ Releases =>
             LET lay == lays'[LayerOf(cid)]
             IN  lay.fade = IF cargs.flag \in {ATOMIX_PLAY, ATOMIX_LOOP}
                            THEN 0 ELSE lay.fmax
       /\ (FirstKernel({ATOMIX_PLAY, ATOMIX_LOOP}) /\ ~sse
              /\ lays[mi].fmax = 4 /\ mrnum >= 4) =>
             \A r \in 1 .. 4 :
                mreads'[r].num = r - 1 /\ mreads'[r].den = 4]_vars

\* a layer started in ATOMIX_PLAY with a fade of 4 frames, whose first 4
\* frames the build without SSE has just mixed
C15_FirstFramesMixed ==
    /\ Started({ATOMIX_PLAY})
    /\ ~sse /\ mpc = "cas" /\ mi = LayerOf(cret)
    /\ lays[mi].fmax = 4 /\ mold = lays[mi].start /\ lays[mi].start = 0
    /\ Len(mreads) = 4

---------------------------------------------------------------------------
(* C16 *)

Min(a, b) == IF a < b THEN a ELSE b

\* a step of the mix thread
MixMoves == mixVars' # mixVars

\* C16: a layer that starts in ATOMIX_HALT is released with fade = 0; as long
\* as no control call follows, the mix thread runs no kernel on it and leaves
\* its cursor and all its other fields as they are; atomixMixerSetState
\* changes no fade and no cursor; and the kernel of a playing or looping layer
\* with fade < fmax applies the factor fade/fmax and raises fade by one per
\* frame mixed, up to fmax.
C16_HaltedStartFadesIn ==
    [][/\ (Releases /\ cargs.flag = ATOMIX_HALT) =>
             lays'[LayerOf(cid)].fade = 0
       /\ (Started({ATOMIX_HALT}) /\ MixMoves) =>
             /\ lays'[LayerOf(cret)] = lays[LayerOf(cret)]
             /\ mi' = LayerOf(cret) => mreads' = <<>> /\ mpc' # "cas"
       /\ (cargs.op = "SetState" /\ ControlMoves) =>
             \A i \in Slots : /\ lays'[i].fade = lays[i].fade
                              /\ lays'[i].cursor = lays[i].cursor
       /\ (mpc = "kernel" /\ mflag \in {ATOMIX_PLAY, ATOMIX_LOOP}
              /\ lays[mi].fade < lays[mi].fmax /\ MixMoves) =>
             /\ \A r \in DOMAIN mreads' :
                   /\ mreads'[r].num =
                         Min(lays[mi].fmax, lays[mi].fade + (r - 1) * Step)
                   /\ mreads'[r].den = lays[mi].fmax
             /\ lays'[mi].fade =
                   Min(lays[mi].fmax, lays[mi].fade + Len(mreads') * Step)]_vars

\* the only layer ever started has not moved from its start and was faded out
\* when the build without SSE found it playing; 4 frames later it is faded in
C16_FadedIn ==
    /\ nid = 1 /\ ~sse /\ mpc = "cas" /\ mflag = ATOMIX_PLAY
    /\ mold = lays[mi].start
    /\ Len(mreads) = 4 /\ mreads[1].num = 0 /\ mreads[4].num = 3
    /\ lays[mi].fade = lays[mi].fmax

---------------------------------------------------------------------------
(* C17 *)

\* a step of the mix thread that runs a kernel on layer mi
KernelRuns == mpc = "kernel" /\ mpc' = "cas"

\* the cursor of round r of a play kernel entered at cursor cur: one step per
\* round, and from end on to start
RoundCursor(lay, cur, r) ==
    lay.start + ((cur - lay.start + (r - 1) * Step) % (lay.end - lay.start))

\* C17: a layer started in ATOMIX_PLAY or ATOMIX_LOOP with start = -k is
\* released with its cursor at -k.  Of the frames mixed for it after that,
\* frame n (counted from 0, across the rounds of the first call, which runs
\* all its rounds unless the layer is not looping and comes to its end) reads
\* nothing while n < k, and frame k + j reads frame j mod len.  In every
\* call the rounds of a play kernel go through consecutive cursors, so the
\* same holds across calls; and no round of any kernel reads a sample while
\* its cursor is negative.
C17_PreRollIsSilent ==
    [][/\ Releases =>
             lays'[LayerOf(cid)].cursor = lays'[LayerOf(cid)].start
       /\ FirstKernel({ATOMIX_PLAY, ATOMIX_LOOP}) =>
             LET k == 0 - lays[mi].start
                 len == Sounds[lays[mi].snd].len
             IN  /\ Len(mreads') =
                       IF mflag = ATOMIX_LOOP THEN Rounds(mrnum)
                       ELSE Min(Rounds(mrnum), (k + lays[mi].end) \div Step)
                 /\ \A r \in DOMAIN mreads' :
                       LET n == (r - 1) * Step
                       IN  mreads'[r].idx =
                              IF n < k THEN NoSample ELSE (n - k) % len
       /\ (KernelRuns /\ mflag \in {ATOMIX_PLAY, ATOMIX_LOOP}) =>
             /\ mcur = lays[mi].cursor
             /\ \A r \in DOMAIN mreads' :
                   mreads'[r].cur = RoundCursor(lays[mi], mcur, r)
       /\ KernelRuns =>
             \A r \in DOMAIN mreads' :
                IF mreads'[r].cur < 0
                THEN mreads'[r].idx = NoSample
                ELSE mreads'[r].idx = mreads'[r].cur % Sounds[lays[mi].snd].len
       /\ (mpc = "cas" /\ MixMoves) => lays'[mi].cursor = mcur]_vars

\* a layer started with 4 frames of pre-roll, of which the build without SSE
\* has just mixed the first 8 frames: 4 without a sample, then frames 0 .. 3
C17_PreRollMixed ==
    /\ Started({ATOMIX_PLAY, ATOMIX_LOOP})
    /\ ~sse /\ mpc = "cas" /\ mi = LayerOf(cret)
    /\ lays[mi].start = -4 /\ mold = -4
    /\ Len(mreads) = 8
    /\ mreads[4].idx = NoSample /\ mreads[5].idx = 0 /\ mreads[8].idx = 3

---------------------------------------------------------------------------
(* C18 *)

\* C18: the kernel of a looping layer runs every round it is asked for; a
\* round that finds the cursor at end goes on at start, so the rounds go
\* through start .. end - 1 again and again; a round at cursor c >= 0 reads
\* frame c mod len of the sound; a sound of 4 frames looped in the window
\* 0 .. 8 gives the frames 0, 1, 2, 3, 0, 1, 2, 3 in its first 8 frames; and
\* the visit of a looping layer leaves its flag as it is.
C18_LoopWrapsToStart ==
    [][/\ (KernelRuns /\ mflag = ATOMIX_LOOP) =>
             /\ Len(mreads') = Rounds(mrnum)
             /\ \A r \in DOMAIN mreads' :
                   LET c == mreads'[r].cur
                   IN  /\ c = RoundCursor(lays[mi], mcur, r)
                       /\ lays[mi].start <= c /\ c < lays[mi].end
                       /\ c >= 0 => mreads'[r].idx = c % Sounds[lays[mi].snd].len
       /\ (FirstKernel({ATOMIX_LOOP}) /\ ~sse /\ mrnum = 8
              /\ Sounds[lays[mi].snd].len = 4
              /\ lays[mi].start = 0 /\ lays[mi].end = 8) =>
             [r \in DOMAIN mreads' |-> mreads'[r].idx] = <<0, 1, 2, 3, 0, 1, 2, 3>>
       /\ (mpc \in {"kernel", "cas", "finish"} /\ mflag = ATOMIX_LOOP
              /\ MixMoves) =>
             lays'[mi].flag = lays[mi].flag]_vars

\* a looping layer whose cursor had reached end, and from whose start the build
\* without SSE has just mixed 8 more frames
C18_LoopedOnce ==
    /\ ~sse /\ mpc = "cas" /\ mflag = ATOMIX_LOOP
    /\ lays[mi].flag = ATOMIX_LOOP
    /\ mold = lays[mi].end
    /\ Len(mreads) = 8
    /\ mreads[1].cur = lays[mi].start /\ mreads[1].idx = 0

---------------------------------------------------------------------------
(* C19 *)

\* a step of the control thread, a step of the mix thread
ControlActs == vars' # vars /\ mixVars' = mixVars
MixActs == vars' # vars /\ ctlVars' = ctlVars

ControlBusy == cpc \notin {"idle", "ret"}
MixBusy == mpc \notin {"idle", "ret"}

\* the steps of a running call of the control thread, of the mix thread
ControlOwnStep ==
    \/ PlayAdvProbe \/ PlayAdvFill \/ PlayAdvPublish
    \/ SetGainPanStore \/ SetCursorStore \/ SetStateCas
    \/ StopAllLoad \/ StopAllStore \/ HaltAllLoad \/ HaltAllCas \/ PlayAllCas
MixOwnStep ==
    \/ MixLayerFlag \/ MixLayerCursor \/ MixLayerKernel \/ MixLayerCas
    \/ MixLayerFinish \/ MixEnd

\* the most steps the running call of the control thread has left: one or two
\* per layer still to visit, two more to fill in and release a layer found
ControlRank ==
    CASE cpc \in {"idle", "ret"} -> 0
      [] cpc = "probe" -> (ATMX_LAYERS - ci) + 2
      [] cpc = "fill" -> 2
      [] cpc = "publish" -> 1
      [] cpc \in {"SetGainPan_store", "SetCursor_store", "SetState_cas"} -> 1
      [] cpc \in {"StopAll_load", "HaltAll_load"} -> 2 * (ATMX_LAYERS - ci)
      [] cpc \in {"StopAll_store", "HaltAll_cas"} -> 2 * (ATMX_LAYERS - ci) - 1
      [] cpc = "PlayAll_cas" -> ATMX_LAYERS - ci

\* the most steps the running atomixMixerMix has left: five per layer still to
\* visit, and the end
MixRank ==
    CASE mpc \in {"idle", "ret"} -> 0
      [] mpc = "flag" -> 5 * (ATMX_LAYERS - mi) + 1
      [] mpc = "cursor" -> 5 * (ATMX_LAYERS - mi)
      [] mpc = "kernel" -> 5 * (ATMX_LAYERS - mi) - 1
      [] mpc = "cas" -> 5 * (ATMX_LAYERS - mi) - 2
      [] mpc = "finish" -> 5 * (ATMX_LAYERS - mi) - 3
      [] mpc = "end" -> 1

\* C19: whatever the other thread has done, a thread that is inside a call can
\* take its next step, and each of its steps brings it nearer to the return:
\* a call of the control thread returns within ATMX_LAYERS * 2 of its own
\* steps after the first, a call of atomixMixerMix within ATMX_LAYERS * 5 + 1
\* (the rounds of a kernel are one step: their number is fixed by fnum before
\* the loop starts).
C19_EveryStepNearsReturn ==
    [][/\ ControlBusy => ENABLED ControlOwnStep
       /\ MixBusy => ENABLED MixOwnStep
       /\ ControlRank = 0 <=> ~ControlBusy
       /\ MixRank = 0 <=> ~MixBusy
       /\ ControlActs =>
             IF ControlBusy THEN ControlRank' < ControlRank
             ELSE ControlRank' <= ATMX_LAYERS * 2
       /\ MixActs =>
             IF MixBusy THEN MixRank' < MixRank
             ELSE MixRank' <= ATMX_LAYERS * 5 + 1]_vars

\* atomixMixerSetCursor has moved the cursor while a kernel ran; the swap of
\* the mix thread has failed, and the mix thread has gone on
C19_WentOnAfterFailedSwap ==
    /\ mpc = "finish" /\ mflag = ATOMIX_PLAY
    /\ mreads # <<>> /\ mold # mreads[1].cur
    /\ cpc = "ret" /\ cargs.op = "SetCursor"

---------------------------------------------------------------------------
(* C20 *)

\* the mix thread is in atmxMixLayer for layer i, past the load of a flag
\* that was not 0
Visits(i) == mpc \in {"cursor", "kernel", "cas", "finish"} /\ mi = i

\* the fields of a layer that are not atomic, but for fade
Fixed(lay) == <<lay.id, lay.snd, lay.start, lay.end, lay.fmax>>

\* the step of atomixMixerPlayAdv that fills in layer i
Fills(i) == cpc = "fill" /\ cpc' = "publish" /\ i = LayerOf(cid)

\* C20: from the load that finds a layer free up to the store that releases
\* it, the allocation has a layer whose flag is 0 and which the mix thread is
\* not visiting; id, snd, start, end and fmax of a layer change in the fill
\* step of an allocation only, and fade there or in the kernel the mix thread
\* runs on that layer.  So what the mix thread reads during a visit is what
\* the last allocation of the layer wrote, but for its own changes of fade,
\* and no allocation writes to the layer during the visit.
C20_AllocationNeverMeetsVisit ==
    [][/\ cpc \in {"fill", "publish"} =>
             /\ lays[LayerOf(cid)].flag = FREE
             /\ ~Visits(LayerOf(cid))
       /\ \A i \in Slots :
             /\ Fixed(lays'[i]) # Fixed(lays[i]) => Fills(i)
             /\ lays'[i].fade # lays[i].fade =>
                   Fills(i) \/ (KernelRuns /\ mi = i)
             /\ Visits(i) => lays[i].id # 0]_vars

\* layer 0 is being allocated for the second time, filled in and not yet
\* released, while the mix thread runs the kernel on layer 1
C20_ReusedWhileMixing ==
    /\ cpc = "publish" /\ nid > ATMX_LAYERS /\ cid = nid - 1
    /\ LayerOf(cid) = 0
    /\ mpc = "kernel" /\ mi = 1

---------------------------------------------------------------------------
(* C21 *)

\* C21: a flag that is 0 changes only by the store at the end of an
\* allocation of that layer by atomixMixerPlayAdv; no step of
\* atomixMixerSetState, atomixMixerStopAll, atomixMixerHaltAll or
\* atomixMixerPlayAll, and no step of the mix thread, writes over a flag
\* that is 0.
C21_FreeStaysFree ==
    [][\A i \in Slots :
          (lays[i].flag = FREE /\ lays'[i].flag # FREE) =>
             (Publishes /\ i = LayerOf(cid))]_vars

\* atomixMixerStopAll has loaded the flag of a playing layer and is about to
\* store ATOMIX_STOP, and the mix thread has freed the layer in between
C21_StoreOverFree ==
    /\ cpc = "StopAll_store"
    /\ lays[ci].flag = FREE
    /\ lays[ci].id # 0

---------------------------------------------------------------------------
(* C22 *)
\* the step of the mix thread that ends its visit of a layer
Leaves == mpc = "finish" /\ mpc' # "finish"

\* C22: a flag becomes 0 only in the step that ends the mix thread's visit of
\* the layer, and only from ATOMIX_STOP or ATOMIX_PLAY: a flag that is
\* ATOMIX_HALT or ATOMIX_LOOP at that step is left as it is.  When the visit
\* loaded ATOMIX_PLAY and the flag is ATOMIX_STOP, ATOMIX_HALT or ATOMIX_LOOP
\* by the time of the swap at the end of the sound, the swap fails and the
\* flag keeps that value.
C22_FreesStoppedOrPlaying ==
    [][/\ \A i \in Slots :
             (lays[i].flag # FREE /\ lays'[i].flag = FREE) =>
                /\ Leaves /\ i = mi
                /\ lays[i].flag \in {ATOMIX_STOP, ATOMIX_PLAY}
                /\ lays[i].flag = mflag
       /\ (Leaves /\ mflag = ATOMIX_PLAY /\ lays[mi].flag # ATOMIX_PLAY) =>
             lays'[mi].flag = lays[mi].flag]_vars

\* the kernel of a layer loaded as playing has come to the end of the sound,
\* and the control thread has changed the flag in between
C22_SwapPreEmpted ==
    /\ mpc = "finish"
    /\ mflag = ATOMIX_PLAY
    /\ mcur = lays[mi].end
    /\ lays[mi].flag \in {ATOMIX_STOP, ATOMIX_HALT, ATOMIX_LOOP}

---------------------------------------------------------------------------
(* C23 *)
\* the compare-and-swap of the cursor at the end of a kernel
Swaps == mpc = "cas" /\ mpc' = "finish"

\* C23: during a visit of the mix thread the cursor of the layer is changed
\* by nothing but the store of atomixMixerSetCursor and the swap of the
\* kernel.  When the cursor at the swap is not the one the kernel started
\* from, the swap leaves the cursor as it is and the kernel returns that
\* value instead of its own; otherwise it stores its own.  The value returned
\* is the one the test for the end of the sound is made with: a layer loaded
\* as playing, and still playing, is freed exactly if that value is end, and
\* one loaded as stopped exactly if it is end or fade is 0.
C23_FailedSwapKeepsStoredCursor ==
    [][/\ (Visits(mi) /\ lays'[mi].cursor # lays[mi].cursor) =>
             \/ Swaps
             \/ /\ cpc = "SetCursor_store" /\ cpc' = "ret"
                /\ cret' = RetSuccess
                /\ LayerOf(cargs.id) = mi
       /\ (Swaps /\ lays[mi].cursor # mold) =>
             /\ lays'[mi].cursor = lays[mi].cursor
             /\ mcur' = lays[mi].cursor
       /\ (Swaps /\ lays[mi].cursor = mold) =>
             /\ lays'[mi].cursor = mcur
             /\ mcur' = mcur
       /\ (mpc = "finish" /\ mpc' = "finish") => mcur' = mcur
       /\ (Leaves /\ mflag = ATOMIX_PLAY /\ lays[mi].flag = ATOMIX_PLAY) =>
             (lays'[mi].flag = FREE <=> mcur = lays[mi].end)
       /\ (Leaves /\ mflag = ATOMIX_STOP) =>
             (lays'[mi].flag = FREE <=>
                 (lays[mi].fade = 0 \/ mcur = lays[mi].end))]_vars

\* a kernel has mixed frames of a playing layer without coming to the end of
\* the sound, its swap has failed, and the value it returns is end
C23_EndTestOnStoredCursor ==
    /\ mpc = "finish"
    /\ mflag = ATOMIX_PLAY
    /\ mreads # <<>>
    /\ mreads[Len(mreads)].cur + Step # lays[mi].end
    /\ mcur = lays[mi].end
    /\ lays[mi].cursor = mcur

---------------------------------------------------------------------------
(* C24 *)
\* a step of the control thread that writes to layer i
Touches(i) == ControlMoves /\ lays'[i] # lays[i]

\* C24: with atomixMixerMix called again and again for 1 frame or more, and
\* the control thread writing to a layer only finitely often, a flag of that
\* layer that is ATOMIX_STOP or ATOMIX_PLAY is 0 some time later, unless the
\* control thread has made it ATOMIX_HALT or ATOMIX_LOOP before.
C24_StoppedAndPlayingAreReleased ==
    \A i \in Slots :
       \/ []<><<Touches(i)>>_vars
       \/ (lays[i].flag \in {ATOMIX_STOP, ATOMIX_PLAY}) ~>
             (lays[i].flag \in {FREE, ATOMIX_HALT, ATOMIX_LOOP})

\* the control thread is at rest, and a stopped layer that was still fading
\* out in this call of atomixMixerMix is fully faded and about to be cleared
C24_FadedOutAndReleased ==
    /\ cpc = "idle"
    /\ mpc = "finish"
    /\ mflag = ATOMIX_STOP
    /\ lays[mi].flag = ATOMIX_STOP
    /\ mreads # <<>>
    /\ lays[mi].fade = 0
    /\ mcur < lays[mi].end

---------------------------------------------------------------------------
(* C25 *)
\* C25: a layer started in ATOMIX_PLAY, as long as no control call follows.
\* Its flag is ATOMIX_PLAY or 0 and its cursor is within start .. end.  A
\* kernel run on it mixes the frames from its cursor on, one per round, for
\* the rounds of the call or up to end, whichever comes first, and the cursor
\* stored after it is the one before plus the frames mixed.  The visit in
\* which the cursor comes to end clears the flag, and no other does: between
\* calls a layer still playing is short of end, and a cleared one is at end,
\* end - start frames after its start.
C25_PlayingAdvancesToEnd ==
    [][Started({ATOMIX_PLAY}) =>
          LET i == LayerOf(cret)
              lay == lays[i]
          IN  /\ lay.flag \in {FREE, ATOMIX_PLAY}
              /\ lay.start <= lay.cursor /\ lay.cursor <= lay.end
              /\ (mpc \in {"idle", "ret"} /\ lay.flag = ATOMIX_PLAY) =>
                    lay.cursor < lay.end
              /\ lay.flag = FREE => lay.cursor = lay.end
              /\ (KernelRuns /\ mi = i) =>
                    /\ Len(mreads') =
                          Min(Rounds(mrnum), (lay.end - mcur) \div Step)
                    /\ \A r \in 1 .. Len(mreads') :
                          mreads'[r].cur = mcur + (r - 1) * Step
                    /\ mcur' = mcur + Len(mreads') * Step
              /\ (Swaps /\ mi = i) => lays'[i].cursor = mcur
              /\ (Leaves /\ mi = i) =>
                    (lays'[i].flag = FREE <=> mcur = lay.end)]_vars

\* a layer started in ATOMIX_PLAY has been cleared at its end by a call of
\* atomixMixerMix for fewer frames than its window has
C25_ReleasedAtEnd ==
    /\ Started({ATOMIX_PLAY})
    /\ lays[LayerOf(cret)].flag = FREE
    /\ lays[LayerOf(cret)].cursor = lays[LayerOf(cret)].end
    /\ mpc = "ret"
    /\ mfnum < lays[LayerOf(cret)].end - lays[LayerOf(cret)].start

---------------------------------------------------------------------------
(* C26 *)
\* the floats of the running call that were written from mix->data
OldFloats == Cardinality({j \in 1 .. Len(mbuff) : mbuff[j].old})

\* the floats j .. k of buff are floats of one aligned buffer, in its order,
\* and the last of them is the float at place last
InOrder(j, k, last) ==
    \A n \in j .. k : mbuff[n].float = last + (k - n)

\* C26: with SSE, mix->rem is 0 .. 3 whenever no call of atomixMixerMix is
\* running, and mix->data then holds the last rem frames of the aligned
\* buffer mixed last, in order.  When a call returns, the floats it wrote
\* from mix->data are floats of that buffer, unchanged and in order, ending
\* at its last float or, if the call took only some of them, right before
\* the ones still kept; the floats it wrote from the buffer it mixed itself
\* are those before the ones it keeps.
C26_CarryOverKeepsFrames ==
    (sse /\ mpc \in {"idle", "ret"}) =>
       /\ rem \in 0 .. 3
       /\ \A j \in 1 .. Floats(rem) : data[j] = Floats(rem) - j + 1
       /\ mpc = "ret" =>
             /\ \A j \in 1 .. OldFloats : mbuff[j].old
             /\ IF OldFloats = Len(mbuff)
                THEN InOrder(1, OldFloats, Floats(rem) + 1)
                ELSE /\ InOrder(1, OldFloats, 1)
                     /\ InOrder(OldFloats + 1, Len(mbuff), Floats(rem) + 1)

\* a layer started looping has been mixed since, so also into the aligned
\* buffer mixed last; a call that was served from mix->data alone has
\* returned, and its first float is not a float of that buffer
C26_OldFrameNotAsMixed ==
    /\ sse
    /\ Started({ATOMIX_LOOP})
    /\ lays[LayerOf(cret)].flag = ATOMIX_LOOP
    /\ lays[LayerOf(cret)].cursor # lays[LayerOf(cret)].start
    /\ mpc = "ret"
    /\ mbuff # <<>>
    /\ \A j \in 1 .. Len(mbuff) : mbuff[j].old
    /\ mbuff[1].float = Stale

---------------------------------------------------------------------------
(* C27 *)
\* C27: after every step, the cursor of a layer whose flag is not 0 is within
\* start .. end, and with SSE it is a multiple of 4; and every cursor the
\* control thread writes, in atomixMixerPlayAdv or in atomixMixerSetCursor
\* whatever value it is called with, is a multiple of 4.
C27_CursorWithinWindow ==
    [][\A i \in Slots :
          /\ lays'[i].flag # FREE =>
                /\ lays'[i].start <= lays'[i].cursor
                /\ lays'[i].cursor <= lays'[i].end
                /\ sse => lays'[i].cursor % 4 = 0
          /\ (/\ ControlMoves
              /\ \/ lays'[i].cursor # lays[i].cursor
                 \/ cpc = "SetCursor_store" /\ i = LayerOf(cargs.id)) =>
                lays'[i].cursor % 4 = 0]_vars

\* without SSE: atomixMixerSetCursor, called with a cursor beyond end while
\* the cursor of the layer was no multiple of 4, has set it to end
C27_ClampedToEnd ==
    /\ ~sse
    /\ cpc = "ret" /\ cargs.op = "SetCursor" /\ cret = RetSuccess
    /\ cargs.cursor > lays[LayerOf(cargs.id)].end
    /\ lays[LayerOf(cargs.id)].flag # FREE
    /\ lays[LayerOf(cargs.id)].cursor = lays[LayerOf(cargs.id)].end
    /\ mpc = "cas" /\ mi = LayerOf(cargs.id) /\ mold % 4 # 0

---------------------------------------------------------------------------
(* C28 *)
\* C28: after every step, the fade of a layer whose flag is not 0 is within
\* 0 .. fmax, and with SSE it is a multiple of 4; and in every round of a
\* kernel the factor applied is a quotient with a divisor above 0 and a
\* dividend from 0 up to the divisor, which for fade/fmax means fmax > 0.
C28_FadeWithinMaximum ==
    [][/\ \A i \in Slots :
             lays'[i].flag # FREE =>
                /\ 0 <= lays'[i].fade
                /\ lays'[i].fade <= lays'[i].fmax
                /\ sse => lays'[i].fade % 4 = 0
       /\ KernelRuns =>
             \A r \in 1 .. Len(mreads') :
                /\ mreads'[r].den > 0
                /\ 0 <= mreads'[r].num
                /\ mreads'[r].num <= mreads'[r].den
                /\ mreads'[r].den \in {1, lays[mi].fmax}]_vars

\* without SSE: a kernel has applied fade/fmax with a fade that is no
\* multiple of 4, neither 0 nor fmax
C28_PartlyFaded ==
    /\ ~sse
    /\ mpc = "cas"
    /\ \E r \in 1 .. Len(mreads) :
          /\ mreads[r].idx # NoSample
          /\ mreads[r].den = lays[mi].fmax
          /\ mreads[r].num % 4 # 0
          /\ 0 < mreads[r].num /\ mreads[r].num < mreads[r].den

---------------------------------------------------------------------------
(* C29 *)
\* C29: the swap of atomixMixerSetState leaves fade and cursor as they are.
\* A kernel run on a layer loaded as stopped with 0 < fade < end - cursor
\* mixes one frame per round (a block of 4 with SSE) for the rounds of the
\* call or until fade is 0, whichever comes first: round r at the cursor
\* advanced by r - 1 steps with the factor (fade less r - 1 steps)/fmax, and
\* it leaves fade lower and the cursor higher by the frames mixed, so that a
\* fade out from fmax takes fmax frames.  The visit clears the flag exactly
\* if fade is 0 by then (or the cursor at end).
C29_StoppedFadesOutAndIsReleased ==
    [][/\ SetStateSwaps =>
             /\ lays'[Target].fade = lays[Target].fade
             /\ lays'[Target].cursor = lays[Target].cursor
       /\ (/\ KernelRuns
           /\ mflag = ATOMIX_STOP
           /\ lays[mi].fade < lays[mi].end - mcur) =>
             LET lay == lays[mi]
                 k == Min(Rounds(mrnum), lay.fade \div Step)
             IN  /\ Len(mreads') = k
                 /\ \A r \in 1 .. k :
                       /\ mreads'[r].cur = mcur + (r - 1) * Step
                       /\ mreads'[r].num = lay.fade - (r - 1) * Step
                       /\ mreads'[r].den = lay.fmax
                 /\ lays'[mi].fade = lay.fade - k * Step
                 /\ mcur' = mcur + k * Step
       /\ (Swaps /\ mflag = ATOMIX_STOP /\ lays[mi].cursor = mold) =>
             lays'[mi].cursor = mcur
       /\ (Leaves /\ mflag = ATOMIX_STOP) =>
             (lays'[mi].flag = FREE <=>
                 (lays[mi].fade = 0 \/ mcur = lays[mi].end))]_vars

\* a stopped layer has faded out from fmax to 0 within one call, its cursor
\* is fmax frames on and short of end, and the visit is about to clear it
C29_FadedOutInOneCall ==
    /\ mpc = "finish"
    /\ mflag = ATOMIX_STOP
    /\ lays[mi].flag = ATOMIX_STOP
    /\ lays[mi].fmax > 0
    /\ lays[mi].fade = 0
    /\ mreads # <<>>
    /\ mreads[1].num = lays[mi].fmax
    /\ Len(mreads) * Step = lays[mi].fmax
    /\ lays[mi].cursor = mreads[1].cur + lays[mi].fmax
    /\ lays[mi].cursor < lays[mi].end

---------------------------------------------------------------------------
(* C30 *)
\* C30: a kernel run on a layer loaded as stopped or halted with fade > 0
\* and fade >= end - cursor mixes one frame per round (a block of 4 with
\* SSE) at full level, for the rounds of the call or up to end, whichever
\* comes first, and leaves fade as it is.  The visit of a stopped layer
\* clears the flag once the cursor is at end, and not before; the visit of
\* a halted layer leaves the flag as it is.
C30_PlaysOutNearEnd ==
    [][/\ (/\ KernelRuns
           /\ mflag \in {ATOMIX_STOP, ATOMIX_HALT}
           /\ lays[mi].fade >= lays[mi].end - mcur) =>
             LET lay == lays[mi]
                 k == Min(Rounds(mrnum), (lay.end - mcur) \div Step)
             IN  /\ lay.fade > 0
                 /\ Len(mreads') = k
                 /\ \A r \in 1 .. k :
                       /\ mreads'[r].cur = mcur + (r - 1) * Step
                       /\ mreads'[r].num = mreads'[r].den
                 /\ lays'[mi].fade = lay.fade
                 /\ mcur' = mcur + k * Step
                 /\ mcur' <= lay.end
       /\ (Leaves /\ mflag = ATOMIX_STOP /\ lays[mi].fade > 0) =>
             (lays'[mi].flag = FREE <=> mcur = lays[mi].end)
       /\ (Leaves /\ mflag = ATOMIX_HALT) =>
             lays'[mi].flag = lays[mi].flag]_vars

\* a halted layer has been played at full level up to end, its fade is as
\* it was, above 0, and the visit is about to leave the flag as it is
C30_HaltedPlayedOut ==
    /\ mpc = "finish"
    /\ mflag = ATOMIX_HALT
    /\ lays[mi].flag = ATOMIX_HALT
    /\ mreads # <<>>
    /\ mreads[1].num = mreads[1].den
    /\ lays[mi].fade > 0
    /\ mcur = lays[mi].end
    /\ lays[mi].cursor = lays[mi].end

---------------------------------------------------------------------------
(* C31 *)
\* C31: no step of the mix thread changes a flag that is ATOMIX_HALT.  While
\* the flag of a layer is ATOMIX_HALT and its fade is 0, a step of the mix
\* thread changes no field of the layer, unless it belongs to a visit that
\* loaded the flag before it became ATOMIX_HALT or to the visit whose kernel
\* has just brought the fade to 0 and which still stores its cursor; and a
\* visit that loads ATOMIX_HALT and finds fade 0 runs no kernel, so it adds
\* nothing to the output.  The flag stays ATOMIX_HALT until a step of the control thread
\* changes it.
C31_HaltedAndFadedIsLeftAlone ==
    [][/\ \A i \in Slots :
             /\ (MixMoves /\ lays[i].flag = ATOMIX_HALT) =>
                   lays'[i].flag = ATOMIX_HALT
             /\ (/\ MixMoves
                 /\ lays[i].flag = ATOMIX_HALT /\ lays[i].fade = 0
                 /\ ~(Visits(i) /\ (mflag # ATOMIX_HALT \/ mpc = "cas"))) =>
                   lays'[i] = lays[i]
             /\ (lays[i].flag = ATOMIX_HALT /\ lays'[i].flag # ATOMIX_HALT) =>
                   ControlMoves
       /\ (/\ mpc = "kernel" /\ MixMoves
           /\ mflag = ATOMIX_HALT /\ lays[mi].fade = 0) =>
             (mpc' = "finish" /\ mreads' = <<>>)]_vars

\* a layer with a fade of its own has been halted and has faded out short of
\* its end; a later visit has loaded ATOMIX_HALT, has run no kernel and is
\* about to leave the layer as it is
C31_HaltedVisitedInVain ==
    /\ mpc = "finish"
    /\ mflag = ATOMIX_HALT
    /\ mreads = <<>>
    /\ lays[mi].flag = ATOMIX_HALT
    /\ lays[mi].fmax > 0
    /\ lays[mi].fade = 0
    /\ lays[mi].cursor < lays[mi].end
    /\ mcur = lays[mi].cursor

---------------------------------------------------------------------------
(* C32 *)

\* atomixMixerPlayAll has returned, called right after atomixMixerHaltAll
RoundTripDone == cpc = "ret" /\ cargs.op = "PlayAll"

\* C32, as stated: when atomixMixerPlayAll returns, called right after
\* atomixMixerHaltAll with no mix call and no other call in between, every
\* layer that had flag ATOMIX_PLAY or ATOMIX_LOOP when atomixMixerHaltAll
\* was called is as it was then, flag included.
C32_RoundTripRestores ==
    RoundTripDone =>
       \A i \in Slots :
          cargs.before[i].flag \in {ATOMIX_PLAY, ATOMIX_LOOP} =>
             lays[i] = cargs.before[i]

\* C32, as the code has it: when atomixMixerPlayAll returns, called right
\* after atomixMixerHaltAll, every layer that had flag ATOMIX_PLAY,
\* ATOMIX_LOOP or ATOMIX_HALT has flag ATOMIX_PLAY, so that a layer that
\* looped does not loop any more; the other flags and all other fields of
\* all layers, cursor and fade among them, are as they were.
C32_RoundTripResumesAsPlay ==
    RoundTripDone =>
       \A i \in Slots :
          lays[i] = [cargs.before[i] EXCEPT !.flag =
                        IF @ \in {ATOMIX_HALT, ATOMIX_PLAY, ATOMIX_LOOP}
                        THEN ATOMIX_PLAY ELSE @]

\* the round trip is over; one layer was playing and one was looping, both
\* part of the way through their window and their fade in
C32_LoopingResumedAsPlay ==
    /\ RoundTripDone
    /\ \E i, j \in Slots :
          /\ cargs.before[i].flag = ATOMIX_LOOP
          /\ cargs.before[j].flag = ATOMIX_PLAY
          /\ cargs.before[i].cursor > cargs.before[i].start
          /\ cargs.before[j].cursor > cargs.before[j].start
          /\ lays[i].flag = ATOMIX_PLAY
          /\ lays[j].flag = ATOMIX_PLAY
          /\ lays[i].cursor = cargs.before[i].cursor

---------------------------------------------------------------------------
(* C33 *)

\* what the kernel of the other build makes of the layer the mix thread is
\* at: with SSE the kernel without, a round per frame; without SSE the
\* kernel with, a round per 4 frames
OtherBuild ==
    LET n == IF sse THEN mrnum ELSE Asize(mrnum) \div 2
        step == IF sse THEN 1 ELSE 4
    IN  IF mflag < 3
        THEN atmxMixFade(lays[mi], mcur, n, step)
        ELSE atmxMixPlay(lays[mi], mflag = ATOMIX_LOOP, mcur, n, step)

\* C33: the two builds go through the same steps, and where they differ
\* they agree for frame counts that are multiples of 4.  A call for a
\* multiple of 4 frames with no frames carried over mixes that many frames
\* in either build and carries none over; and a kernel run over a multiple
\* of 4 frames leaves the cursor and the fade that the kernel of the other
\* build would leave for the same layer, flag and cursor.  As the flag is
\* then cleared or kept on cursor, fade and flag alone, the same calls give
\* the same flag, cursor and fade after every mix call.
C33_BuildsAgreeOnBlocks ==
    [][/\ (mpc = "idle" /\ mpc' # "idle" /\ mfnum' % 4 = 0 /\ rem = 0) =>
             (mpc' = "flag" /\ mrnum' = mfnum' /\ rem' = 0)
       /\ (mpc = "end" /\ mpc' # "end" /\ mrnum % 4 = 0) => rem' = rem
       /\ (KernelRuns /\ mrnum % 4 = 0) =>
             /\ mcur' = OtherBuild.cur
             /\ lays'[mi].fade = OtherBuild.fade
             /\ \A found \in {FREE} \cup States :
                   FinishFlag(lays'[mi], mflag, mcur', found)
                      = FinishFlag([lays[mi] EXCEPT !.fade = OtherBuild.fade],
                                   mflag, OtherBuild.cur, found)]_vars

\* the build without SSE has run a kernel over 8 frames for a looping layer
\* whose cursor has gone from end on to start, with the fade on its way up
C33_LoopedOverBlocks ==
    /\ ~sse
    /\ mpc = "cas"
    /\ mrnum = 8
    /\ mflag = ATOMIX_LOOP
    /\ mcur < mold
    /\ lays[mi].fmax > 0
    /\ lays[mi].fade = lays[mi].fmax

---------------------------------------------------------------------------
(* C34 *)

\* x is y rounded down to a multiple of 4
RoundedDown(x, y) == x % 4 = 0 /\ x <= y /\ y < x + 4

\* C34: when atomixMixerPlayAdv returns a handle, its start and end were
\* such that end - start >= 4 and end >= 4, and the layer of the handle has
\* start and end rounded down to multiples of 4, with end - start >= 4, and
\* fmax equal to the greater of 0 and fade, rounded down to a multiple of
\* 4; and every layer that has been given an id has start, end and fmax
\* that are multiples of 4, with end - start >= 4, end >= 4 and fmax >= 0.
C34_WindowInMultiplesOfFour ==
    /\ (cpc = "ret" /\ cargs.op = "PlayAdv" /\ cret # 0) =>
          LET lay == lays[LayerOf(cret)]
          IN  /\ cargs.end - cargs.start >= 4
              /\ cargs.end >= 4
              /\ RoundedDown(lay.start, cargs.start)
              /\ RoundedDown(lay.end, cargs.end)
              /\ lay.end - lay.start >= 4
              /\ RoundedDown(lay.fmax,
                             IF cargs.fade > 0 THEN cargs.fade ELSE 0)
    /\ \A i \in Slots :
          lays[i].id # 0 =>
             /\ lays[i].start % 4 = 0
             /\ lays[i].end % 4 = 0
             /\ lays[i].fmax % 4 = 0
             /\ lays[i].end - lays[i].start >= 4
             /\ lays[i].end >= 4
             /\ lays[i].fmax >= 0

\* atomixMixerPlayAdv has returned a handle for a window whose start is
\* negative and whose start, end and fade are no multiples of 4; the window
\* that is stored is longer than the one that was given
C34_UnalignedWindowStored ==
    /\ cpc = "ret"
    /\ cargs.op = "PlayAdv"
    /\ cret # 0
    /\ cargs.start < 0
    /\ cargs.start % 4 # 0
    /\ cargs.end % 4 # 0
    /\ cargs.fade % 4 # 0
    /\ cargs.fade > 4
    /\ lays[LayerOf(cret)].end - lays[LayerOf(cret)].start
          > cargs.end - cargs.start
    /\ lays[LayerOf(cret)].fmax = 4

====
